---- MODULE Spec2Model ----
(***************************************************************************)
(* DICOMweb conformance test suite: the outcome ledger (base.py) and the   *)
(* scoring engine (conformance_report.py).                                 *)
(*                                                                         *)
(* Numbers.  Python floats are modelled by exact values.  An unrounded     *)
(* percentage is the rational [num, den]; a value rounded by round(x, 2)   *)
(* is an integer number of hundredths (8889 is 88.89) and a value rounded  *)
(* by round(x, 3) an integer number of thousandths.  Response times are    *)
(* whole milliseconds.  Text is a sequence of one-character strings, so    *)
(* that str.lower() and the substring test `kw in name` are computed.      *)
(***************************************************************************)
EXTENDS Integers, Sequences, FiniteSets, TLC

\* ------------------------------------------------------------------ bounds
\* Longest ledger the executors record in a session of Spec.
MaxLedger == 3
\* Largest number of outcomes of one status in a ledger of CountLedgers.
MaxCount == 8
\* How far above its threshold a failure bucket is filled in BucketLedgers.
MaxOver == 1
\* Number of PASS outcomes of the smallest ledger of LargeLedgers.
LargePassed == 20000
\* Largest score, in hundredths, handed to _determine_conformance_level alone.
MaxScoreArg == 10000

\* -------------------------------------------------------------------- text
UpperCase == <<"A","B","C","D","E","F","G","H","I","J","K","L","M",
               "N","O","P","Q","R","S","T","U","V","W","X","Y","Z">>
LowerCase == <<"a","b","c","d","e","f","g","h","i","j","k","l","m",
               "n","o","p","q","r","s","t","u","v","w","x","y","z">>

\* str.lower() on one character.
LowerChar(c) ==
    LET up == {i \in 1..26 : UpperCase[i] = c}
    IN  IF up = {} THEN c ELSE LowerCase[CHOOSE i \in up : TRUE]

\* str.lower().
lower(s) == [i \in 1..Len(s) |-> LowerChar(s[i])]

\* Python's `kw in s` on strings.
Contains(kw, s) ==
    \E i \in 1..(Len(s) - Len(kw) + 1) : SubSeq(s, i, i + Len(kw) - 1) = kw

\* Keywords of the scoring engine.
kw_basic == <<"b","a","s","i","c">>
kw_metadata == <<"m","e","t","a","d","a","t","a">>
kw_content_type == <<"c","o","n","t","e","n","t","-","t","y","p","e">>
kw_authentication == <<"a","u","t","h","e","n","t","i","c","a","t","i","o","n">>
kw_error == <<"e","r","r","o","r">>
kw_query == <<"q","u","e","r","y">>
kw_retrieve == <<"r","e","t","r","i","e","v","e">>
kw_store == <<"s","t","o","r","e">>
kw_auth == <<"a","u","t","h">>
kw_performance == <<"p","e","r","f","o","r","m","a","n","c","e">>
kw_time == <<"t","i","m","e">>
kw_invalid == <<"i","n","v","a","l","i","d">>

\* Test names the executors record (qido_tests.py, wado_tests.py, stow_tests.py).
BasicPatientQuery ==
    <<"B","a","s","i","c"," ","P","a","t","i","e","n","t"," ","Q","u","e","r","y">>
BasicSeriesQuery ==
    <<"B","a","s","i","c"," ","S","e","r","i","e","s"," ","Q","u","e","r","y">>
BasicInstanceQuery ==
    <<"B","a","s","i","c"," ","I","n","s","t","a","n","c","e"," ","Q","u","e","r","y">>
StoreWithAuthentication ==
    <<"S","t","o","r","e"," ","w","i","t","h"," ","A","u","t","h","e","n","t","i","c","a","t","i","o","n">>
AuthenticationRequirements ==
    <<"A","u","t","h","e","n","t","i","c","a","t","i","o","n"," ","R","e","q","u","i","r","e","m","e","n","t","s">>
LargeFilePerformance ==
    <<"L","a","r","g","e"," ","F","i","l","e"," ","P","e","r","f","o","r","m","a","n","c","e">>
InvalidStudyUID ==
    <<"I","n","v","a","l","i","d"," ","S","t","u","d","y"," ","U","I","D">>
ErrorResponseHandling ==
    <<"E","r","r","o","r"," ","R","e","s","p","o","n","s","e"," ","H","a","n","d","l","i","n","g">>
ContentTypeValidation ==
    <<"C","o","n","t","e","n","t","-","T","y","p","e"," ","V","a","l","i","d","a","t","i","o","n">>
StudyMetadataRetrieval ==
    <<"S","t","u","d","y"," ","M","e","t","a","d","a","t","a"," ","R","e","t","r","i","e","v","a","l">>
AcceptHeaderHandling ==
    <<"A","c","c","e","p","t"," ","H","e","a","d","e","r"," ","H","a","n","d","l","i","n","g">>
\* The three names of the specification's scenario C; the executors record
\* "Basic Patient Query" and "Basic Series Query", the third is the scenario's.
BasicStudyQuery ==
    <<"B","a","s","i","c"," ","S","t","u","d","y"," ","Q","u","e","r","y">>

\* Every test name of the model.
TestNames ==
    {BasicPatientQuery, BasicSeriesQuery, BasicInstanceQuery, BasicStudyQuery,
     StoreWithAuthentication, AuthenticationRequirements, LargeFilePerformance,
     InvalidStudyUID, ErrorResponseHandling, ContentTypeValidation,
     StudyMetadataRetrieval, AcceptHeaderHandling}

\* ------------------------------------------------------------- the ledger
\* A TestResult; the fields the scoring engine reads.
TestResult(test_name, protocol, status, response_time) ==
    [test_name |-> test_name, protocol |-> protocol, status |-> status,
     response_time |-> response_time]

\* Python's None in a field of a TestResult that otherwise holds text.
None == <<"None">>

\* Mutant of TestResultOf: the timestamp is not read off the clock.
TestResultOf_at_epoch(args, timestamp) ==
    [test_name |-> args.test_name,
     protocol |-> args.protocol,
     status |-> args.status,
     message |-> args.message,
     response_time |-> args.response_time,
     request_details |-> args.request_details,
     response_details |-> args.response_details,
     timestamp |-> 0,
     recommendation |-> IF "recommendation" \in DOMAIN args
                        THEN args.recommendation ELSE None,
     mapping_id |-> IF "mapping_id" \in DOMAIN args
                    THEN args.mapping_id ELSE None,
     requirement |-> IF "requirement" \in DOMAIN args
                     THEN args.requirement ELSE None,
     requirement_level |-> IF "requirement_level" \in DOMAIN args
                           THEN args.requirement_level ELSE None]

\* The TestResult that _record_test_result builds from its arguments, args
\* being the arguments the caller supplies: recommendation, mapping_id,
\* requirement and requirement_level default to None, and the timestamp is
\* the clock's reading at the call.
TestResultOf(args, timestamp) ==
    LET given(k) == IF k \in DOMAIN args THEN args[k] ELSE None
    IN  [test_name |-> args.test_name,
         protocol |-> args.protocol,
         status |-> args.status,
         message |-> args.message,
         response_time |-> args.response_time,
         request_details |-> args.request_details,
         response_details |-> args.response_details,
         timestamp |-> timestamp,
         recommendation |-> given("recommendation"),
         mapping_id |-> given("mapping_id"),
         requirement |-> given("requirement"),
         requirement_level |-> given("requirement_level")]

\* ------------------------------------------------------------ arithmetic
RECURSIVE SumSeq(_)
SumSeq(s) == IF s = <<>> THEN 0 ELSE Head(s) + SumSeq(Tail(s))

MaxSeq(s) == CHOOSE x \in {s[i] : i \in DOMAIN s} : \A j \in DOMAIN s : s[j] <= x
MinSeq(s) == CHOOSE x \in {s[i] : i \in DOMAIN s} : \A j \in DOMAIN s : x <= s[j]

\* round(num/den * scale-units): the integers nearest to num*scale/den.  An
\* exact half is rounded by the code according to the binary double that
\* num/den*100 happens to be, up for some operands and down for others; both
\* neighbours are kept.
RoundDiv(num, scale, den) ==
    LET q == (num * scale) \div den
        r == (num * scale) % den
    IN  IF 2 * r < den THEN {q}
        ELSE IF 2 * r > den THEN {q + 1}
        ELSE {q, q + 1}

\* An unrounded percentage part/whole*100, 0 when whole is 0.
Percentage(part, whole) ==
    IF whole > 0 THEN [num |-> part * 100, den |-> whole]
    ELSE [num |-> 0, den |-> 1]

\* round(x, 2) of an unrounded percentage, in hundredths.
Round2(x) == RoundDiv(x.num, 100, x.den)

\* ------------------------------------------------------- the scoring engine
\* len([r for r in test_results if r.status == status])
CountStatus(test_results, status) ==
    Len(SelectSeq(test_results, LAMBDA r : r.status = status))

total_tests(test_results) == Len(test_results)
passed_tests(test_results) == CountStatus(test_results, "PASS")
failed_tests(test_results) == CountStatus(test_results, "FAIL")
skipped_tests(test_results) == CountStatus(test_results, "SKIP")

\* Mutant of protocol_stats: the passed count is not restricted to the protocol.
protocol_stats_passed_overall(test_results) ==
    [protocol \in {"QIDO", "WADO", "STOW"} |->
        LET protocol_results ==
                SelectSeq(test_results, LAMBDA r : r.protocol = protocol)
        IN  [total |-> Len(protocol_results),
             passed |-> CountStatus(test_results, "PASS"),
             failed |-> CountStatus(protocol_results, "FAIL"),
             skipped |-> CountStatus(protocol_results, "SKIP"),
             pass_rate |-> Percentage(CountStatus(test_results, "PASS"),
                                      Len(protocol_results))]]

\* Protocol breakdown.
protocol_stats(test_results) ==
    [protocol \in {"QIDO", "WADO", "STOW"} |->
        LET protocol_results ==
                SelectSeq(test_results, LAMBDA r : r.protocol = protocol)
        IN  [total |-> Len(protocol_results),
             passed |-> CountStatus(protocol_results, "PASS"),
             failed |-> CountStatus(protocol_results, "FAIL"),
             skipped |-> CountStatus(protocol_results, "SKIP"),
             pass_rate |-> Percentage(CountStatus(protocol_results, "PASS"),
                                      Len(protocol_results))]]

\* Performance metrics: the positive response times, in ledger order.  Their
\* sum is exact here; the code's float sum may differ in its last bits with
\* the order of the ledger.
response_times(test_results) ==
    LET timed == SelectSeq(test_results, LAMBDA r : r.response_time > 0)
    IN  [i \in 1..Len(timed) |-> timed[i].response_time]

\* The possible values of the performance_metrics entry (the average is
\* rounded to three decimals, that is to whole milliseconds).
performance_metrics(test_results) ==
    LET rt == response_times(test_results)
    IN  IF rt = <<>>
        THEN {[average_response_time |-> 0, max_response_time |-> 0,
               min_response_time |-> 0, total_response_time |-> 0]}
        ELSE {[average_response_time |-> avg, max_response_time |-> MaxSeq(rt),
               min_response_time |-> MinSeq(rt),
               total_response_time |-> SumSeq(rt)] :
                 avg \in RoundDiv(SumSeq(rt), 1, Len(rt))}

\* Mutant of total_possible: a failed test of a MAY requirement is not scored.
total_possible_waiving_may(test_results) ==
    total_tests(test_results) - skipped_tests(test_results)
    - Len(SelectSeq(test_results,
                    LAMBDA r : /\ r.status = "FAIL"
                               /\ "requirement_level" \in DOMAIN r
                               /\ r.requirement_level = <<"M","A","Y">>))

\* Mutant of total_possible: skipped tests stay in the denominator.
total_possible_with_skipped(test_results) == total_tests(test_results)

\* Compliance score calculation.
total_possible(test_results) ==
    total_tests(test_results) - skipped_tests(test_results)

\* Mutant of compliance_score: skipped tests are credited as passed.
compliance_score_crediting_skipped(test_results) ==
    Percentage(passed_tests(test_results) + skipped_tests(test_results),
               total_possible(test_results))

\* Mutant of compliance_score: a run in which nothing was scored is perfect.
compliance_score_vacuously_perfect(test_results) ==
    IF total_possible(test_results) > 0
    THEN Percentage(passed_tests(test_results), total_possible(test_results))
    ELSE [num |-> 100, den |-> 1]

\* The unrounded compliance score.
compliance_score(test_results) ==
    Percentage(passed_tests(test_results), total_possible(test_results))

\* Critical issues.
CriticalKeywords ==
    {kw_basic, kw_metadata, kw_content_type, kw_authentication, kw_error}

\* Mutant of HasCriticalKeyword: the name is not lowercased.
HasCriticalKeyword_case_sensitive(test_name) ==
    \E keyword \in CriticalKeywords : Contains(keyword, test_name)

\* any(keyword in r.test_name.lower() for keyword in [...])
HasCriticalKeyword(test_name) ==
    \E keyword \in CriticalKeywords : Contains(keyword, lower(test_name))

\* HasCriticalKeyword, evaluated once for each test name of the model.
HasCriticalKeywordOf == [n \in TestNames |-> HasCriticalKeyword(n)]

critical_failures(test_results) ==
    SelectSeq(test_results,
              LAMBDA r : r.status = "FAIL" /\ HasCriticalKeywordOf[r.test_name])

\* Mutant of _determine_conformance_level: the chain is applied to the score
\* rounded to two decimals, in hundredths.
_determine_conformance_level_of_rounded(score) ==
    LET h == (2 * score.num * 100 + score.den) \div (2 * score.den)
    IN  IF h >= 9000 THEN "EXCELLENT"
        ELSE IF h >= 7500 THEN "GOOD"
        ELSE IF h >= 6000 THEN "ACCEPTABLE"
        ELSE IF h >= 4000 THEN "POOR"
        ELSE "NON_COMPLIANT"

\* Mutant of _determine_conformance_level: the bounds are exclusive.
_determine_conformance_level_exclusive(score) ==
    IF score.num > 90 * score.den THEN "EXCELLENT"
    ELSE IF score.num > 75 * score.den THEN "GOOD"
    ELSE IF score.num > 60 * score.den THEN "ACCEPTABLE"
    ELSE IF score.num > 40 * score.den THEN "POOR"
    ELSE "NON_COMPLIANT"

\* The comparison chain on the unrounded score.
_determine_conformance_level(score) ==
    IF score.num >= 90 * score.den THEN "EXCELLENT"
    ELSE IF score.num >= 75 * score.den THEN "GOOD"
    ELSE IF score.num >= 60 * score.den THEN "ACCEPTABLE"
    ELSE IF score.num >= 40 * score.den THEN "POOR"
    ELSE "NON_COMPLIANT"

\* Mutant of FailureCategory: "auth" is tested before the basic operations.
FailureCategory_auth_first(test_name) ==
    LET test_name_lower == lower(test_name)
    IN  IF Contains(kw_auth, test_name_lower)
        THEN "authentication"
        ELSE IF \/ Contains(kw_basic, test_name_lower)
                \/ Contains(kw_query, test_name_lower)
                \/ Contains(kw_retrieve, test_name_lower)
                \/ Contains(kw_store, test_name_lower)
        THEN "basic_operations"
        ELSE IF \/ Contains(kw_performance, test_name_lower)
                \/ Contains(kw_time, test_name_lower)
        THEN "performance"
        ELSE IF \/ Contains(kw_error, test_name_lower)
                \/ Contains(kw_invalid, test_name_lower)
        THEN "error_handling"
        ELSE "compliance"

\* The if/elif chain that picks the one bucket a failed test is counted in.
FailureCategory(test_name) ==
    LET test_name_lower == lower(test_name)
    IN  IF \/ Contains(kw_basic, test_name_lower)
           \/ Contains(kw_query, test_name_lower)
           \/ Contains(kw_retrieve, test_name_lower)
           \/ Contains(kw_store, test_name_lower)
        THEN "basic_operations"
        ELSE IF Contains(kw_auth, test_name_lower)
        THEN "authentication"
        ELSE IF \/ Contains(kw_performance, test_name_lower)
                \/ Contains(kw_time, test_name_lower)
        THEN "performance"
        ELSE IF \/ Contains(kw_error, test_name_lower)
                \/ Contains(kw_invalid, test_name_lower)
        THEN "error_handling"
        ELSE "compliance"

\* FailureCategory, evaluated once for each test name of the model.
FailureCategoryOf == [n \in TestNames |-> FailureCategory(n)]

Categories ==
    <<"basic_operations", "authentication", "performance", "error_handling",
      "compliance">>

\* Count failures by category: the loop adds one to the bucket of every FAIL.
failure_categories(test_results) ==
    [c \in {Categories[i] : i \in 1..5} |->
        Len(SelectSeq(test_results,
                      LAMBDA result : /\ result.status = "FAIL"
                                      /\ FailureCategoryOf[result.test_name] = c))]

\* Mutant of Threshold: two failed basic operations are enough.
Threshold_basic_from_two ==
    [basic_operations |-> 1, authentication |-> 0, performance |-> 1,
     error_handling |-> 2, compliance |-> 3]

\* The count a bucket must exceed for its recommendation to be made.
Threshold ==
    [basic_operations |-> 2, authentication |-> 0, performance |-> 1,
     error_handling |-> 2, compliance |-> 3]

Advisory ==
    [basic_operations |->
        "Focus on implementing core DICOMweb operations (QIDO-RS, WADO-RS, STOW-RS)",
     authentication |-> "Review and implement proper authentication mechanisms",
     performance |->
        "Optimize server performance and implement caching strategies",
     error_handling |->
        "Improve error response handling and HTTP status code usage",
     compliance |->
        "Review DICOMweb specification compliance and implement missing features"]

DefaultAdvisory == "Continue monitoring and maintaining DICOMweb compliance"

\* The five `if count > threshold: append` statements, in their order.
RECURSIVE AppendCrossed(_, _, _)
AppendCrossed(recommendations, counts, i) ==
    IF i > 5 THEN recommendations
    ELSE AppendCrossed(
            IF counts[Categories[i]] > Threshold[Categories[i]]
            THEN Append(recommendations, Advisory[Categories[i]])
            ELSE recommendations,
            counts, i + 1)

\* Mutant of _generate_recommendations_summary: a recommendation is appended
\* when the first failed test of its bucket is met in the ledger.
RECURSIVE AppendAsMet(_, _, _, _)
AppendAsMet(recommendations, counts, test_results, i) ==
    IF i > Len(test_results) THEN recommendations
    ELSE LET c == FailureCategoryOf[test_results[i].test_name]
             met == /\ test_results[i].status = "FAIL"
                    /\ counts[c] > Threshold[c]
                    /\ \A j \in 1..(i - 1) :
                          ~ /\ test_results[j].status = "FAIL"
                            /\ FailureCategoryOf[test_results[j].test_name] = c
         IN  AppendAsMet(IF met THEN Append(recommendations, Advisory[c])
                         ELSE recommendations,
                         counts, test_results, i + 1)

_generate_recommendations_summary_in_ledger_order(test_results) ==
    LET recommendations ==
            AppendAsMet(<<>>, failure_categories(test_results), test_results, 1)
    IN  IF recommendations = <<>> THEN <<DefaultAdvisory>>
        ELSE recommendations

\* Mutant of _generate_recommendations_summary: no default recommendation.
_generate_recommendations_summary_without_default(test_results) ==
    AppendCrossed(<<>>, failure_categories(test_results), 1)

_generate_recommendations_summary(test_results) ==
    LET recommendations ==
            AppendCrossed(<<>>, failure_categories(test_results), 1)
    IN  IF recommendations = <<>> THEN <<DefaultAdvisory>>
        ELSE recommendations

\* The possible return values of _generate_summary: one, or two where a
\* rounded figure is an exact half.
_generate_summary(test_results) ==
    {[total_tests |-> total_tests(test_results),
      passed_tests |-> passed_tests(test_results),
      failed_tests |-> failed_tests(test_results),
      skipped_tests |-> skipped_tests(test_results),
      compliance_score |-> score,
      pass_rate |-> rate,
      protocol_statistics |-> protocol_stats(test_results),
      performance_metrics |-> perf,
      critical_failures |-> Len(critical_failures(test_results)),
      conformance_level |->
          _determine_conformance_level(compliance_score(test_results)),
      recommendations_summary |->
          _generate_recommendations_summary(test_results)] :
        score \in Round2(compliance_score(test_results)),
        rate \in Round2(Percentage(passed_tests(test_results),
                                   total_tests(test_results))),
        perf \in performance_metrics(test_results)}

\* ------------------------------------------------- queries on the ledger
\* base.py.  [r for r in self.test_results if r.status == status]
get_results_by_status(test_results, status) ==
    SelectSeq(test_results, LAMBDA r : r.status = status)

\* [r for r in self.test_results if r.protocol == protocol]
get_results_by_protocol(test_results, protocol) ==
    SelectSeq(test_results, LAMBDA r : r.protocol = protocol)

\* DICOMwebBaseTest.get_summary.  pass_rate is the unrounded percentage;
\* protocols_tested is a list made from a set, in no order that the code
\* fixes, and is kept as the set.
get_summary(test_results) ==
    LET total == Len(test_results)
        passed == Len(get_results_by_status(test_results, "PASS"))
        failed == Len(get_results_by_status(test_results, "FAIL"))
        skipped == Len(get_results_by_status(test_results, "SKIP"))
    IN  [total_tests |-> total,
         passed |-> passed,
         failed |-> failed,
         skipped |-> skipped,
         pass_rate |-> IF total > 0 THEN Percentage(passed, total)
                       ELSE Percentage(0, 1),
         protocols_tested |->
             {test_results[i].protocol : i \in DOMAIN test_results}]

\* ============================================================ the executors
\* qido_tests.py, wado_tests.py, stow_tests.py.  A check is a method _test_*:
\* the assignment of its test_name and one try statement whose handler
\* catches Exception.  A path of a check is the sequence of its calls of
\* _record_test_result, each with the status it passes and whether it
\* passes a measured response time or the literal 0, and whether an
\* exception leaves the method at its end.

\* Mutant of paths: a statement before the try raises on one more path.
paths_with_unguarded_statement(outcomes) ==
    {[records |-> <<[status |-> o[1], timed |-> o[2]]>>, raises |-> FALSE] :
        o \in outcomes}
    \cup {[records |-> <<>>, raises |-> TRUE]}

\* The paths of a check whose calls of _record_test_result pass the given
\* outcomes: on every path through the try statement, its handlers included,
\* one call is made and it is the last statement of the path.
paths(outcomes) ==
    {[records |-> <<[status |-> o[1], timed |-> o[2]]>>, raises |-> FALSE] :
        o \in outcomes}

\* QIDOTest.run_tests: the checks in the order of their calls, each with its
\* test_name and the recordings of its paths.
QIDOChecks ==
    <<[test_name |->
          <<"B","a","s","i","c"," ","P","a","t","i","e","n","t"," ","Q","u",
            "e","r","y">>,
      paths |-> paths({<<"PASS", TRUE>>, <<"FAIL", TRUE>>, <<"FAIL", FALSE>>})],
      [test_name |->
          <<"Q","I","D","O","_","0","0","1","/","Q","I","D","O","_","0","0",
            "2"," ","S","t","u","d","i","e","s"," ","E","n","d","p","o","i",
            "n","t"," ","a","n","d"," ","C","o","n","t","e","n","t","-","T",
            "y","p","e">>,
      paths |-> paths({<<"PASS", TRUE>>, <<"FAIL", TRUE>>, <<"FAIL", FALSE>>})],
      [test_name |->
          <<"B","a","s","i","c"," ","S","e","r","i","e","s"," ","Q","u","e",
            "r","y">>,
      paths |-> paths({<<"PASS", TRUE>>, <<"FAIL", TRUE>>, <<"FAIL", FALSE>>})],
      [test_name |->
          <<"B","a","s","i","c"," ","I","n","s","t","a","n","c","e"," ","Q",
            "u","e","r","y">>,
      paths |-> paths({<<"PASS", TRUE>>, <<"FAIL", TRUE>>, <<"FAIL", FALSE>>})],
      [test_name |->
          <<"Q","I","D","O","_","0","0","3","/","Q","I","D","O","_","0","0",
            "4"," ","C","o","m","m","o","n"," ","P","a","r","a","m","e","t",
            "e","r"," ","S","u","p","p","o","r","t">>,
      paths |-> paths({<<"PASS", TRUE>>, <<"FAIL", TRUE>>, <<"FAIL", FALSE>>, <<"SKIP", TRUE>>})],
      [test_name |->
          <<"Q","u","e","r","y"," ","w","i","t","h"," ","F","i","l","t","e",
            "r","s">>,
      paths |-> paths({<<"PASS", TRUE>>, <<"FAIL", TRUE>>, <<"FAIL", FALSE>>})],
      [test_name |->
          <<"Q","u","e","r","y"," ","w","i","t","h"," ","L","i","m","i","t">>,
      paths |-> paths({<<"PASS", TRUE>>, <<"FAIL", TRUE>>, <<"FAIL", FALSE>>})],
      [test_name |->
          <<"Q","u","e","r","y"," ","w","i","t","h"," ","O","f","f","s","e",
            "t">>,
      paths |-> paths({<<"PASS", TRUE>>, <<"FAIL", TRUE>>, <<"FAIL", FALSE>>})],
      [test_name |->
          <<"Q","u","e","r","y"," ","w","i","t","h"," ","F","i","e","l","d",
            " ","S","p","e","c","i","f","i","c","a","t","i","o","n">>,
      paths |-> paths({<<"PASS", TRUE>>, <<"FAIL", TRUE>>, <<"FAIL", FALSE>>})],
      [test_name |->
          <<"Q","u","e","r","y"," ","w","i","t","h"," ","F","u","z","z","y",
            " ","M","a","t","c","h","i","n","g">>,
      paths |-> paths({<<"PASS", TRUE>>, <<"FAIL", TRUE>>, <<"FAIL", FALSE>>})],
      [test_name |->
          <<"Q","u","e","r","y"," ","C","a","s","e"," ","S","e","n","s","i",
            "t","i","v","i","t","y">>,
      paths |-> paths({<<"PASS", TRUE>>, <<"FAIL", TRUE>>, <<"FAIL", FALSE>>})],
      [test_name |->
          <<"I","n","v","a","l","i","d"," ","Q","u","e","r","y"," ","P","a",
            "r","a","m","e","t","e","r","s">>,
      paths |-> paths({<<"PASS", TRUE>>, <<"FAIL", TRUE>>, <<"FAIL", FALSE>>})],
      [test_name |->
          <<"E","m","p","t","y"," ","R","e","s","u","l","t"," ","Q","u","e",
            "r","y">>,
      paths |-> paths({<<"PASS", TRUE>>, <<"FAIL", TRUE>>, <<"FAIL", FALSE>>})],
      [test_name |->
          <<"Q","u","e","r","y"," ","P","a","g","i","n","a","t","i","o","n">>,
      paths |-> paths({<<"PASS", TRUE>>, <<"FAIL", TRUE>>, <<"FAIL", FALSE>>})],
      [test_name |->
          <<"C","o","n","t","e","n","t","-","T","y","p","e"," ","V","a","l",
            "i","d","a","t","i","o","n">>,
      paths |-> paths({<<"PASS", TRUE>>, <<"FAIL", TRUE>>, <<"FAIL", FALSE>>})],
      [test_name |->
          <<"R","e","s","p","o","n","s","e"," ","F","o","r","m","a","t"," ",
            "V","a","l","i","d","a","t","i","o","n">>,
      paths |-> paths({<<"PASS", TRUE>>, <<"FAIL", TRUE>>, <<"FAIL", FALSE>>})],
      [test_name |->
          <<"Q","u","e","r","y"," ","P","e","r","f","o","r","m","a","n","c",
            "e">>,
      paths |-> paths({<<"PASS", TRUE>>, <<"FAIL", TRUE>>, <<"FAIL", FALSE>>})]>>

\* WADOTest.run_tests: the checks in the order of their calls, each with its
\* test_name and the recordings of its paths.
WADOChecks ==
    <<[test_name |->
          <<"S","t","u","d","y"," ","M","e","t","a","d","a","t","a"," ","R",
            "e","t","r","i","e","v","a","l">>,
      paths |-> paths({<<"PASS", TRUE>>, <<"FAIL", TRUE>>, <<"FAIL", FALSE>>, <<"SKIP", FALSE>>})],
      [test_name |->
          <<"S","e","r","i","e","s"," ","M","e","t","a","d","a","t","a"," ",
            "R","e","t","r","i","e","v","a","l">>,
      paths |-> paths({<<"PASS", TRUE>>, <<"FAIL", TRUE>>, <<"FAIL", FALSE>>, <<"SKIP", FALSE>>})],
      [test_name |->
          <<"I","n","s","t","a","n","c","e"," ","M","e","t","a","d","a","t",
            "a"," ","R","e","t","r","i","e","v","a","l">>,
      paths |-> paths({<<"PASS", TRUE>>, <<"FAIL", TRUE>>, <<"FAIL", FALSE>>, <<"SKIP", FALSE>>})],
      [test_name |->
          <<"I","m","a","g","e"," ","R","e","t","r","i","e","v","a","l">>,
      paths |-> paths({<<"PASS", TRUE>>, <<"FAIL", TRUE>>, <<"FAIL", FALSE>>, <<"SKIP", FALSE>>})],
      [test_name |->
          <<"F","r","a","m","e"," ","R","e","t","r","i","e","v","a","l">>,
      paths |-> paths({<<"PASS", TRUE>>, <<"FAIL", TRUE>>, <<"FAIL", FALSE>>, <<"SKIP", FALSE>>})],
      [test_name |->
          <<"B","u","l","k"," ","D","a","t","a"," ","R","e","t","r","i","e",
            "v","a","l">>,
      paths |-> paths({<<"PASS", TRUE>>, <<"FAIL", TRUE>>, <<"FAIL", FALSE>>})],
      [test_name |->
          <<"C","o","n","t","e","n","t","-","T","y","p","e"," ","V","a","l",
            "i","d","a","t","i","o","n">>,
      paths |-> paths({<<"PASS", FALSE>>, <<"FAIL", FALSE>>, <<"SKIP", FALSE>>})],
      [test_name |->
          <<"A","c","c","e","p","t"," ","H","e","a","d","e","r"," ","H","a",
            "n","d","l","i","n","g">>,
      paths |-> paths({<<"PASS", FALSE>>, <<"FAIL", FALSE>>})],
      [test_name |->
          <<"R","a","n","g","e"," ","R","e","q","u","e","s","t"," ","S","u",
            "p","p","o","r","t">>,
      paths |-> paths({<<"PASS", TRUE>>, <<"FAIL", TRUE>>, <<"FAIL", FALSE>>, <<"SKIP", FALSE>>})],
      [test_name |->
          <<"I","n","v","a","l","i","d"," ","S","t","u","d","y"," ","U","I",
            "D">>,
      paths |-> paths({<<"PASS", TRUE>>, <<"FAIL", TRUE>>, <<"FAIL", FALSE>>})],
      [test_name |->
          <<"I","n","v","a","l","i","d"," ","S","e","r","i","e","s"," ","U",
            "I","D">>,
      paths |-> paths({<<"PASS", TRUE>>, <<"FAIL", TRUE>>, <<"FAIL", FALSE>>})],
      [test_name |->
          <<"I","n","v","a","l","i","d"," ","I","n","s","t","a","n","c","e",
            " ","U","I","D">>,
      paths |-> paths({<<"PASS", TRUE>>, <<"FAIL", TRUE>>, <<"FAIL", FALSE>>})],
      [test_name |->
          <<"M","a","l","f","o","r","m","e","d"," ","R","e","q","u","e","s",
            "t">>,
      paths |-> paths({<<"PASS", TRUE>>, <<"FAIL", TRUE>>, <<"FAIL", FALSE>>})],
      [test_name |->
          <<"L","a","r","g","e"," ","F","i","l","e"," ","P","e","r","f","o",
            "r","m","a","n","c","e">>,
      paths |-> paths({<<"PASS", TRUE>>, <<"FAIL", TRUE>>, <<"FAIL", FALSE>>, <<"SKIP", FALSE>>})],
      [test_name |->
          <<"C","o","n","c","u","r","r","e","n","t"," ","R","e","t","r","i",
            "e","v","a","l">>,
      paths |-> paths({<<"PASS", TRUE>>, <<"FAIL", TRUE>>, <<"FAIL", FALSE>>})],
      [test_name |->
          <<"D","I","C","O","M"," ","V","a","l","i","d","a","t","i","o","n">>,
      paths |-> paths({<<"PASS", TRUE>>, <<"FAIL", TRUE>>, <<"FAIL", FALSE>>, <<"SKIP", FALSE>>})],
      [test_name |->
          <<"E","r","r","o","r"," ","R","e","s","p","o","n","s","e"," ","H",
            "a","n","d","l","i","n","g">>,
      paths |-> paths({<<"PASS", FALSE>>, <<"FAIL", FALSE>>})],
      [test_name |->
          <<"A","u","t","h","e","n","t","i","c","a","t","i","o","n"," ","R",
            "e","q","u","i","r","e","m","e","n","t","s">>,
      paths |-> paths({<<"PASS", TRUE>>, <<"FAIL", TRUE>>, <<"FAIL", FALSE>>})]>>

\* STOWTest.run_tests: the checks in the order of their calls, each with its
\* test_name and the recordings of its paths.
STOWChecks ==
    <<[test_name |->
          <<"B","a","s","i","c"," ","D","I","C","O","M"," ","S","t","o","r",
            "e">>,
      paths |-> paths({<<"PASS", TRUE>>, <<"FAIL", TRUE>>, <<"FAIL", FALSE>>})],
      [test_name |->
          <<"S","t","o","r","e"," ","w","i","t","h"," ","M","e","t","a","d",
            "a","t","a">>,
      paths |-> paths({<<"PASS", TRUE>>, <<"FAIL", TRUE>>, <<"FAIL", FALSE>>})],
      [test_name |->
          <<"S","t","o","r","e"," ","C","u","s","t","o","m"," ","C","o","n",
            "t","e","n","t"," ","T","y","p","e">>,
      paths |-> paths({<<"PASS", FALSE>>, <<"FAIL", FALSE>>})],
      [test_name |->
          <<"S","t","o","r","e"," ","M","u","l","t","i","p","l","e"," ","O",
            "b","j","e","c","t","s">>,
      paths |-> paths({<<"PASS", FALSE>>, <<"FAIL", FALSE>>})],
      [test_name |->
          <<"S","t","o","r","e"," ","I","n","v","a","l","i","d"," ","D","I",
            "C","O","M">>,
      paths |-> paths({<<"PASS", TRUE>>, <<"FAIL", TRUE>>, <<"FAIL", FALSE>>})],
      [test_name |->
          <<"S","t","o","r","e"," ","w","i","t","h"," ","A","u","t","h","e",
            "n","t","i","c","a","t","i","o","n">>,
      paths |-> paths({<<"PASS", TRUE>>, <<"FAIL", TRUE>>, <<"FAIL", FALSE>>})],
      [test_name |->
          <<"S","t","o","r","e"," ","R","e","s","p","o","n","s","e"," ","V",
            "a","l","i","d","a","t","i","o","n">>,
      paths |-> paths({<<"PASS", TRUE>>, <<"FAIL", TRUE>>, <<"FAIL", FALSE>>})],
      [test_name |->
          <<"S","t","o","r","e"," ","W","i","t","h","o","u","t"," ","P","e",
            "r","m","i","s","s","i","o","n","s">>,
      paths |-> paths({<<"PASS", TRUE>>, <<"FAIL", TRUE>>, <<"FAIL", FALSE>>})],
      [test_name |->
          <<"S","t","o","r","e"," ","L","a","r","g","e"," ","D","I","C","O",
            "M">>,
      paths |-> paths({<<"PASS", TRUE>>, <<"FAIL", TRUE>>, <<"FAIL", FALSE>>})],
      [test_name |->
          <<"S","t","o","r","e"," ","D","i","f","f","e","r","e","n","t"," ",
            "M","o","d","a","l","i","t","i","e","s">>,
      paths |-> paths({<<"PASS", FALSE>>, <<"FAIL", FALSE>>})],
      [test_name |->
          <<"S","t","o","r","e"," ","D","I","C","O","M"," ","D","i","r","e",
            "c","t","o","r","y">>,
      paths |-> paths({<<"PASS", TRUE>>, <<"FAIL", TRUE>>, <<"FAIL", FALSE>>})],
      [test_name |->
          <<"M","u","l","t","i","p","a","r","t"," ","U","p","l","o","a","d">>,
      paths |-> paths({<<"PASS", TRUE>>, <<"FAIL", TRUE>>, <<"FAIL", FALSE>>})],
      [test_name |->
          <<"C","o","n","c","u","r","r","e","n","t"," ","U","p","l","o","a",
            "d","s">>,
      paths |-> paths({<<"PASS", TRUE>>, <<"FAIL", FALSE>>})],
      [test_name |->
          <<"S","t","o","r","e"," ","S","p","e","c","i","f","i","c"," ","S",
            "t","u","d","y","/","S","e","r","i","e","s">>,
      paths |-> paths({<<"PASS", TRUE>>, <<"FAIL", TRUE>>, <<"FAIL", FALSE>>})],
      [test_name |->
          <<"S","t","o","r","e"," ","w","i","t","h"," ","P","a","t","i","e",
            "n","t"," ","I","n","f","o">>,
      paths |-> paths({<<"PASS", TRUE>>, <<"FAIL", TRUE>>, <<"FAIL", FALSE>>})],
      [test_name |->
          <<"S","t","o","r","e"," ","E","m","p","t","y"," ","P","a","y","l",
            "o","a","d">>,
      paths |-> paths({<<"PASS", TRUE>>, <<"FAIL", TRUE>>, <<"FAIL", FALSE>>})],
      [test_name |->
          <<"S","t","o","r","e"," ","C","o","r","r","u","p","t","e","d"," ",
            "D","I","C","O","M">>,
      paths |-> paths({<<"PASS", TRUE>>, <<"FAIL", TRUE>>, <<"FAIL", FALSE>>})],
      [test_name |->
          <<"S","t","o","r","e"," ","U","n","s","u","p","p","o","r","t","e",
            "d"," ","F","o","r","m","a","t">>,
      paths |-> paths({<<"PASS", TRUE>>, <<"FAIL", TRUE>>, <<"FAIL", FALSE>>})]>>

\* The checks of the executor of a protocol.
Checks(protocol) ==
    CASE protocol = "QIDO" -> QIDOChecks
      [] protocol = "WADO" -> WADOChecks
      [] protocol = "STOW" -> STOWChecks

\* ---- the concurrent checks
\* STOWTest._test_concurrent_uploads and WADOTest._test_concurrent_retrieval.
\* The number of worker threads of a concurrent check.
NumThreads == 3

NoReply == [kind |-> "none"]

\* What _make_request does in a worker: it returns a response with a status
\* code after a time in seconds, or raises.
WorkerReplies ==
    {[kind |-> "response", status_code |-> 200, time |-> 1],
     [kind |-> "response", status_code |-> 200, time |-> 20],
     [kind |-> "response", status_code |-> 500, time |-> 1],
     [kind |-> "exception"]}

\* Mutant of joined: join returns without waiting for the thread.
joined_at_once(ts, j) == TRUE

\* thread.join() returns when the thread has terminated.
joined(ts, j) == ts[j].pc = "done"

\* The entry a worker appends to results for a response.
result_entry(check, reply) ==
    IF check = "_test_concurrent_uploads"
    THEN [response_time |-> reply.time, total_time |-> reply.time,
          status |-> reply.status_code,
          success |-> reply.status_code \in {200, 201, 204, 409}]
    ELSE [response_time |-> reply.time, status |-> reply.status_code,
          total_time |-> reply.time]

\* The arguments of the one call of _record_test_result that the main thread
\* makes after the joins.
concurrent_outcome(check, protocol, res, errs) ==
    LET times == [i \in DOMAIN res |-> res[i].total_time]
        common == [protocol |-> protocol,
                   request_details |-> [test_type |-> "concurrent"],
                   response_details |-> [results |-> res,
                                         error_count |-> Len(errs)]]
        successful_uploads == SelectSeq(res, LAMBDA r : r.success)
    IN  IF check = "_test_concurrent_uploads"
        THEN IF Len(successful_uploads) > 0
             THEN [test_name |-> <<"C","o","n","c","u","r","r","e","n","t",
                                   " ","U","p","l","o","a","d","s">>,
                   status |-> "PASS",
                   message |-> <<"C","o","n","c","u","r","r","e","n","t"," ",
                                 "u","p","l","o","a","d","s">>,
                   response_time |-> SumSeq(times),
                   recommendation |->
                       <<"C","o","n","c","u","r","r","e","n","t"," ","u","p",
                         "l","o","a","d"," ","p","e","r","f","o","r","m","a",
                         "n","c","e"," ","i","s"," ","a","c","c","e","p","t",
                         "a","b","l","e">>]
                  @@ common
             ELSE [test_name |-> <<"C","o","n","c","u","r","r","e","n","t",
                                   " ","U","p","l","o","a","d","s">>,
                   status |-> "FAIL",
                   message |-> <<"N","o"," ","c","o","n","c","u","r","r","e",
                                 "n","t"," ","u","p","l","o","a","d","s"," ",
                                 "s","u","c","c","e","s","s","f","u","l">>,
                   response_time |-> 0,
                   recommendation |->
                       <<"F","i","x"," ","c","o","n","c","u","r","r","e","n",
                         "t"," ","u","p","l","o","a","d"," ","h","a","n","d",
                         "l","i","n","g"," ","i","s","s","u","e","s">>]
                  @@ common
        ELSE IF Len(res) = 3 /\ Len(errs) = 0
             THEN IF SumSeq(times) < 15 * Len(res)
                  THEN [test_name |-> <<"C","o","n","c","u","r","r","e","n",
                                        "t"," ","R","e","t","r","i","e","v",
                                        "a","l">>,
                        status |-> "PASS",
                        message |-> <<"C","o","n","c","u","r","r","e","n","t",
                                      " ","r","e","t","r","i","e","v","a",
                                      "l">>,
                        response_time |-> SumSeq(times),
                        recommendation |->
                            <<"C","o","n","c","u","r","r","e","n","t"," ","r",
                              "e","t","r","i","e","v","a","l"," ","p","e","r",
                              "f","o","r","m","a","n","c","e"," ","i","s"," ",
                              "a","c","c","e","p","t","a","b","l","e">>]
                       @@ common
                  ELSE [test_name |-> <<"C","o","n","c","u","r","r","e","n",
                                        "t"," ","R","e","t","r","i","e","v",
                                        "a","l">>,
                        status |-> "FAIL",
                        message |-> <<"C","o","n","c","u","r","r","e","n","t",
                                      " ","r","e","t","r","i","e","v","a","l",
                                      " ","s","l","o","w">>,
                        response_time |-> SumSeq(times),
                        recommendation |->
                            <<"O","p","t","i","m","i","z","e"," ","c","o","n",
                              "c","u","r","r","e","n","t"," ","r","e","q","u",
                              "e","s","t"," ","h","a","n","d","l","i","n",
                              "g">>]
                       @@ common
             ELSE [test_name |-> <<"C","o","n","c","u","r","r","e","n","t",
                                   " ","R","e","t","r","i","e","v","a","l">>,
                   status |-> "FAIL",
                   message |-> <<"C","o","n","c","u","r","r","e","n","t"," ",
                                 "r","e","t","r","i","e","v","a","l"," ","i",
                                 "s","s","u","e","s">>,
                   response_time |-> 0,
                   recommendation |->
                       <<"F","i","x"," ","c","o","n","c","u","r","r","e","n",
                         "t"," ","r","e","q","u","e","s","t"," ","h","a","n",
                         "d","l","i","n","g"," ","i","s","s","u","e","s">>]
                  @@ common

\* ===================================================== vendor identification
\* vendor_identification.py.  Text is again a sequence of one-character
\* strings.  A URL of the model has no query, no fragment, no dot segment and
\* no empty path segment.
\* str(n) of a natural number, as the f-string formats it.
RECURSIVE str_int(_)
str_int(n) ==
    LET Digits == <<"0","1","2","3","4","5","6","7","8","9">>
    IN  IF n < 10 THEN <<Digits[n + 1]>>
        ELSE str_int(n \div 10) \o <<Digits[(n % 10) + 1]>>

\* The positions at which sub occurs in s.
Occurrences(sub, s) ==
    {i \in 1..(Len(s) - Len(sub) + 1) : SubSeq(s, i, i + Len(sub) - 1) = sub}

SetMax(S) == CHOOSE x \in S : \A y \in S : y <= x
SetMin(S) == CHOOSE x \in S : \A y \in S : x <= y

\* str.rstrip(c).
RECURSIVE rstrip(_, _)
rstrip(s, c) ==
    IF Len(s) > 0 /\ s[Len(s)] = c THEN rstrip(SubSeq(s, 1, Len(s) - 1), c)
    ELSE s

\* s.rsplit(sep, 1)[0]: what precedes the last occurrence of sep, or s.
rsplit_head(s, sep) ==
    LET occ == Occurrences(sep, s)
    IN  IF occ = {} THEN s ELSE SubSeq(s, 1, SetMax(occ) - 1)

\* urllib.parse.urlsplit: origin is "scheme://netloc" (empty when the URL has
\* no "://"), netloc the authority, path the rest.
urlsplit(url) ==
    LET sep == Occurrences(<<":","/","/">>, url)
    IN  IF sep = {} THEN [origin |-> <<>>, netloc |-> <<>>, path |-> url]
        ELSE LET start == SetMin(sep) + 3
                 slashes == {i \in start..Len(url) : url[i] = "/"}
                 end == IF slashes = {} THEN Len(url) + 1 ELSE SetMin(slashes)
             IN  [origin |-> SubSeq(url, 1, end - 1),
                  netloc |-> SubSeq(url, start, end - 1),
                  path |-> SubSeq(url, end, Len(url))]

\* urlsplit raises ValueError("Invalid IPv6 URL") on an authority with one
\* square bracket and not the other.
urlsplit_raises(url) ==
    LET netloc == urlsplit(url).netloc
    IN  Contains(<<"[">>, netloc) # Contains(<<"]">>, netloc)

\* urllib.parse.urljoin(base, url) for a url that is a path: an absolute path
\* replaces the path of base, a relative one its last segment.
urljoin(base, url) ==
    LET parts == urlsplit(base)
        slashes == {i \in 1..Len(parts.path) : parts.path[i] = "/"}
        dir == IF slashes = {} THEN
                   IF parts.origin = <<>> THEN <<>> ELSE <<"/">>
               ELSE SubSeq(parts.path, 1, SetMax(slashes))
    IN  IF Len(base) = 0 THEN url
        ELSE IF Len(url) > 0 /\ url[1] = "/" THEN parts.origin \o url
        ELSE parts.origin \o dir \o url

\* ---- JSON.  A parsed value is a string (text), a list of strings (elems)
\* or an object (items, a sequence of <<key, value>>).
Json(t, text, elems, items) ==
    [t |-> t, text |-> text, elems |-> elems, items |-> items]
\* A body that is not JSON, on which resp.json() raises.
NotJson == Json("invalid", <<>>, <<>>, <<>>)
\* Python's None.
JsonNone == Json("None", <<>>, <<>>, <<>>)

RECURSIVE Join(_, _)
\* sep.join(texts).
Join(texts, sep) ==
    IF Len(texts) = 0 THEN <<>>
    ELSE IF Len(texts) = 1 THEN texts[1]
    ELSE texts[1] \o sep \o Join(Tail(texts), sep)

\* json.dumps(v) of a parsed value, with the default separators.
RECURSIVE dumps(_)
dumps(v) ==
    LET Quoted(text) == <<"\"">> \o text \o <<"\"">>
    IN  IF v.t = "str" THEN Quoted(v.text)
        ELSE IF v.t = "list"
        THEN <<"[">>
             \o Join([i \in 1..Len(v.elems) |-> Quoted(v.elems[i])],
                     <<","," ">>)
             \o <<"]">>
        ELSE <<"{">>
             \o Join([i \in 1..Len(v.items) |->
                         Quoted(v.items[i][1]) \o <<":"," ">>
                         \o dumps(v.items[i][2])],
                     <<","," ">>)
             \o <<"}">>

\* `key in data` and data.get(key) on a parsed object.
HasKey(data, key) == \E i \in 1..Len(data.items) : data.items[i][1] = key

dict_get(data, key, default) ==
    IF HasKey(data, key)
    THEN data.items[CHOOSE i \in 1..Len(data.items) : data.items[i][1] = key][2]
    ELSE default

\* Truth value of a string or a list inside an object, or of None.
Truthy(v) ==
    \/ v.t = "str" /\ Len(v.text) > 0
    \/ v.t = "list" /\ Len(v.elems) > 0

\* str(v): a string is itself, a list is its repr.
str_value(v) ==
    IF v.t = "str" THEN v.text
    ELSE <<"[">>
         \o Join([i \in 1..Len(v.elems) |-> <<"'">> \o v.elems[i] \o <<"'">>],
                 <<","," ">>)
         \o <<"]">>

\* ---- what the remote side does on one request, and requests.Response.
\* kind is "response", "ConnectionError" or "Timeout"; headers is a sequence
\* of <<name, value>> with names distinct up to letter case, as
\* requests.structures.CaseInsensitiveDict holds them.
Response(status_code, headers, body) ==
    [kind |-> "response", status_code |-> status_code, headers |-> headers,
     body |-> body]
Failure(kind) ==
    [kind |-> kind, status_code |-> 0, headers |-> <<>>, body |-> NotJson]
\* Python's None where a Response is expected.
NoResponse == Failure("None")

\* CaseInsensitiveDict.get(name, default).
headers_get(headers, name, default) ==
    LET found == {i \in 1..Len(headers) : lower(headers[i][1]) = lower(name)}
    IN  IF found = {} THEN default ELSE headers[SetMax(found)][2]

\* bool(resp): None is false, and requests.Response.__bool__ is Response.ok,
\* false for a status code from 400 to 599.
bool_Response(resp) ==
    /\ resp # NoResponse
    /\ ~(400 <= resp.status_code /\ resp.status_code < 600)

\* ---- the profile
VendorProfile(vendor, product, version, base_url, detection_method, server_header, qido_signature, additional_hints) ==
    [vendor |-> vendor, product |-> product, version |-> version,
     base_url |-> base_url, detection_method |-> detection_method,
     server_header |-> server_header, qido_signature |-> qido_signature,
     additional_hints |-> additional_hints]

Unknown == <<"U","n","k","n","o","w","n">>
Orthanc == <<"O","r","t","h","a","n","c">>
dcm4chee == <<"d","c","m","4","c","h","e","e">>

\* Python's None for a credential, for the auth tuple and for a profile, and
\* the empty dict.
NoCredential == <<"None">>
NoAuth == <<>>
NoProfile == [none |-> "no profile"]
EmptyDict == [x \in {} |-> x]

\* dataclasses.asdict: the fields of the dataclass, dicts and lists copied.
asdict(self) ==
    [f \in {"vendor", "product", "version", "base_url", "detection_method",
            "server_header", "qido_signature", "additional_hints"} |-> self[f]]

\* dict.pop(key, None) on the copy.
dict_pop(data, key) == [k \in DOMAIN data \ {key} |-> data[k]]

\* VendorProfile.to_dict.
to_dict(self) == dict_pop(asdict(self), "credentials")

_build_auth(username, password) ==
    IF /\ username # NoCredential /\ Len(username) > 0
       /\ password # NoCredential /\ Len(password) > 0
    THEN <<username, password>>
    ELSE NoAuth

\* _safe_get: the response, or None when requests.get raised.
_safe_get(reply) == IF reply.kind = "response" THEN reply ELSE NoResponse

_extract_server_header(resp) ==
    IF ~bool_Response(resp) THEN <<>>
    ELSE LET server == headers_get(resp.headers, <<"S","e","r","v","e","r">>, <<>>)
         IN  IF Len(server) > 0 THEN server
             ELSE headers_get(resp.headers, <<"X","-","P","o","w","e","r","e","d","-","B","y">>, <<>>)

_try_parse_json(resp) ==
    IF ~bool_Response(resp) THEN JsonNone
    ELSE IF resp.body.t = "invalid" THEN JsonNone
    ELSE resp.body

\* ---- the strategies.  remote[i] is what the remote side does on the i-th
\* request of the call.  A strategy yields the profile (NoProfile for None),
\* the exception that left it ("" for none) and probes, the requests it
\* issued in order, each with what came back.
Probe(url, auth, reply) == [url |-> url, auth |-> auth, reply |-> reply]

candidates(base_url) ==
    <<rsplit_head(rstrip(base_url, "/"), <<"/","d","i","c","o","m","-","w","e","b">>) \o <<"/","s","y","s","t","e","m">>,
      urljoin(base_url, <<"/","s","y","s","t","e","m">>)>>

\* A marker test that accepts any JSON object.
HasOrthancMarker_any_object(data) == data.t = "dict"

\* The marker test of _detect_orthanc on a parsed body.
HasOrthancMarker(data) ==
    /\ data.t = "dict"
    /\ (HasKey(data, <<"V","e","r","s","i","o","n">>) \/ HasKey(data, <<"O","r","t","h","a","n","c","V","e","r","s","i","o","n">>))

OrthancVersionOf(data) ==
    LET version == dict_get(data, <<"V","e","r","s","i","o","n">>, JsonNone)
        orthanc_version == dict_get(data, <<"O","r","t","h","a","n","c","V","e","r","s","i","o","n">>, JsonNone)
    IN  IF Truthy(version) THEN str_value(version)
        ELSE IF Truthy(orthanc_version) THEN str_value(orthanc_version)
        ELSE <<>>

OrthancSystemProfile(base_url, url, resp, data) ==
    VendorProfile(Orthanc, Orthanc, OrthancVersionOf(data), base_url,
                  <<"o","r","t","h","a","n","c","_","s","y","s","t","e","m","_","a","p","i",
      ":">> \o url,
                  _extract_server_header(resp), <<>>,
                  [api |-> <<"O","r","t","h","a","n","c"," ","/","s","y","s","t","e","m">>,
                   plugins |-> dict_get(data, <<"P","l","u","g","i","n","s">>, Json("list", <<>>, <<>>, <<>>))])

\* A loop that requests every candidate and returns the last one accepted.
RECURSIVE _detect_orthanc_last_match(_, _, _, _, _, _)
_detect_orthanc_last_match(base_url, auth, remote, urls, i, probes) ==
    IF i > Len(urls)
    THEN [raised |-> "", profile |-> NoProfile, probes |-> probes]
    ELSE LET resp == _safe_get(remote[i])
             data == _try_parse_json(resp)
             issued == Append(probes, Probe(urls[i], auth, remote[i]))
             rest == _detect_orthanc_last_match(base_url, auth, remote, urls,
                                                i + 1, issued)
         IN  IF HasOrthancMarker(data) /\ rest.profile = NoProfile
             THEN [raised |-> "",
                   profile |-> OrthancSystemProfile(base_url, urls[i], resp,
                                                    data),
                   probes |-> rest.probes]
             ELSE rest

\* The loop of _detect_orthanc from candidate i on.
RECURSIVE _detect_orthanc_loop(_, _, _, _, _, _)
_detect_orthanc_loop(base_url, auth, remote, urls, i, probes) ==
    IF i > Len(urls)
    THEN [raised |-> "", profile |-> NoProfile, probes |-> probes]
    ELSE LET resp == _safe_get(remote[i])
             data == _try_parse_json(resp)
             issued == Append(probes, Probe(urls[i], auth, remote[i]))
         IN  IF HasOrthancMarker(data)
             THEN [raised |-> "",
                   profile |-> OrthancSystemProfile(base_url, urls[i], resp,
                                                    data),
                   probes |-> issued]
             ELSE _detect_orthanc_loop(base_url, auth, remote, urls, i + 1,
                                       issued)

\* _detect_orthanc.  Building the candidate list raises ValueError when
\* urljoin cannot split base_url; no request has been issued then.
_detect_orthanc(base_url, auth, remote) ==
    IF urlsplit_raises(base_url)
    THEN [raised |-> "ValueError", profile |-> NoProfile, probes |-> <<>>]
    ELSE _detect_orthanc_loop(base_url, auth, remote, candidates(base_url),
                              1, <<>>)

\* The longest body preview kept, json.dumps(body)[:2048].
PreviewMax == 2048

header_blacklist ==
    {<<"a","u","t","h","o","r","i","z","a","t","i","o","n">>, <<"p","r","o","x","y","-","a","u","t","h","o","r","i","z","a","t","i","o",
      "n">>, <<"c","o","o","k","i","e">>,
     <<"s","e","t","-","c","o","o","k","i","e">>}

\* The dict comprehension of _detect_from_qido over resp.headers.items().
safe_headers(headers) ==
    SelectSeq(headers, LAMBDA h : lower(h[1]) \notin header_blacklist)

AcceptHeader ==
    <<<<<<"A","c","c","e","p","t">>, <<"a","p","p","l","i","c","a","t","i","o","n","/","d","i","c","o","m","+",
      "j","s","o","n",","," ","a","p","p","l","i","c","a","t","i","o","n",
      "/","j","s","o","n",";","q","=","0",".","9">>>>>>

qido_url(base_url) ==
    urljoin(rstrip(base_url, "/") \o <<"/">>, <<"s","t","u","d","i","e","s","?","l","i","m","i","t","=","1">>)

\* A preview that keeps the whole text of json.dumps(body).
body_str_whole(body) == IF body = JsonNone THEN <<>> ELSE dumps(body)

\* body_str of _detect_from_qido: json.dumps(body)[:2048], empty when the body
\* did not parse.
body_str(body) ==
    IF body = JsonNone THEN <<>>
    ELSE LET text == dumps(body)
         IN  SubSeq(text, 1, IF Len(text) < PreviewMax THEN Len(text)
                                ELSE PreviewMax)

\* f"status={resp.status_code};server={server_header};len={len(body_str)}"
signature(status_code, server_header, preview) ==
    <<"s","t","a","t","u","s","=">> \o str_int(status_code) \o <<";","s","e","r","v","e","r","=">> \o server_header
    \o <<";","l","e","n","=">> \o str_int(Len(preview))

raw_probe_metadata(url, resp, preview) ==
    [probe_type |-> <<"q","i","d","o","_","s","t","u","d","i","e","s","_","l","i","m","i","t",
      "_","1">>,
     request |-> [url |-> url, method |-> <<"G","E","T">>, headers |-> AcceptHeader],
     response |-> [status_code |-> resp.status_code,
                   headers |-> safe_headers(resp.headers),
                   body_preview |-> preview]]

\* _detect_from_qido on what the remote side does on its one request: the
\* tuple it returns, and probe, the request it issued.
_detect_from_qido(base_url, auth, reply) ==
    LET url == qido_url(base_url)
        resp == _safe_get(reply)
        probe == Probe(url, auth, reply)
        server_header == _extract_server_header(resp)
        body == _try_parse_json(resp)
        preview == body_str(body)
        sig == signature(resp.status_code, server_header, preview)
        raw == raw_probe_metadata(url, resp, preview)
    IN  IF ~bool_Response(resp)
        THEN [profile |-> NoProfile, server_header |-> <<>>,
              qido_signature |-> <<>>, raw_probe |-> EmptyDict,
              probe |-> probe]
        ELSE IF \/ Contains(Orthanc, server_header)
                \/ body.t = "dict" /\ Contains(Orthanc, dumps(body))
        THEN [profile |->
                  VendorProfile(Orthanc, <<"O","r","t","h","a","n","c"," ","(","h","e","u","r","i","s","t","i","c",
      ")">>, <<>>,
                                base_url,
                                <<"q","i","d","o","_","h","e","a","d","e","r","_","o","r","_","b","o","d",
      "y","_","c","o","n","t","a","i","n","s","_","O","r","t","h","a","n",
      "c">>,
                                server_header, sig, [qido_probe |-> raw]),
              server_header |-> server_header, qido_signature |-> sig,
              raw_probe |-> raw, probe |-> probe]
        ELSE IF Contains(dcm4chee, lower(server_header))
        THEN [profile |->
                  VendorProfile(dcm4chee, <<"d","c","m","4","c","h","e","e","-","a","r","c"," ","(","h","e","u","r",
      "i","s","t","i","c",")">>, <<>>,
                                base_url,
                                <<"s","e","r","v","e","r","_","h","e","a","d","e","r","_","c","o","n","t",
      "a","i","n","s","_","d","c","m","4","c","h","e","e">>,
                                server_header, sig, [qido_probe |-> raw]),
              server_header |-> server_header, qido_signature |-> sig,
              raw_probe |-> raw, probe |-> probe]
        ELSE [profile |-> NoProfile, server_header |-> server_header,
              qido_signature |-> sig, raw_probe |-> raw, probe |-> probe]

Note ==
    <<"U","n","a","b","l","e"," ","t","o"," ","c","o","n","f","i","d","e","n",
      "t","l","y"," ","d","e","t","e","r","m","i","n","e"," ","v","e","n",
      "d","o","r",";"," ","r","e","v","i","e","w"," ","h","e","a","d","e",
      "r","s"," ","a","n","d"," ","d","e","p","l","o","y","m","e","n","t",
      " ","d","o","c","s",".">>

\* dict.setdefault(key, value).
setdefault(d, key, value) ==
    IF key \in DOMAIN d THEN d
    ELSE [k \in DOMAIN d \cup {key} |-> IF k = key THEN value ELSE d[k]]

\* A fallback that keeps the defaults of a fresh profile.
FallbackProfile_without_hints(base_url, server_header, qido_sig, raw_probe) ==
    VendorProfile(Unknown, Unknown, <<>>, base_url, <<"h","e","u","r","i","s","t","i","c","_","u","n","k","n","o","w","n">>,
                  <<>>, <<>>,
                  [note |-> Note, server_header |-> server_header,
                   qido_signature |-> qido_sig, qido_probe |-> raw_probe])

\* The fallback of identify_vendor, lines 233 to 243.
FallbackProfile(base_url, server_header, qido_sig, raw_probe) ==
    VendorProfile(Unknown, Unknown, <<>>, base_url, <<"h","e","u","r","i","s","t","i","c","_","u","n","k","n","o","w","n">>,
                  server_header, qido_sig,
                  [note |-> Note, server_header |-> server_header,
                   qido_signature |-> qido_sig, qido_probe |-> raw_probe])

\* identify_vendor: the profile it returns or the exception that leaves it,
\* and the requests the call issued.
identify_vendor(base_url, username, password, remote) ==
    LET auth == _build_auth(username, password)
        orthanc == _detect_orthanc(base_url, auth, remote)
        qido == _detect_from_qido(base_url, auth,
                                  remote[Len(orthanc.probes) + 1])
        probes == Append(orthanc.probes, qido.probe)
    IN  IF orthanc.raised # "" \/ orthanc.profile # NoProfile THEN orthanc
        ELSE IF qido.profile # NoProfile
        THEN [raised |-> "",
              profile |->
                  [qido.profile EXCEPT !.additional_hints =
                      IF DOMAIN qido.raw_probe # {}
                      THEN setdefault(@, "qido_probe", qido.raw_probe)
                      ELSE @],
              probes |-> probes]
        ELSE [raised |-> "",
              profile |-> FallbackProfile(base_url, qido.server_header,
                                          qido.qido_signature,
                                          qido.raw_probe),
              probes |-> probes]

\* =========================================================== the JSON report
\* The printable ASCII characters in code point order (without the grave
\* accent, which no text of the model holds).
Ascii ==
    <<" ","!","\"","#","$","%","&","'","(",")","*","+",",","-",".","/",
      "0","1","2","3","4","5","6","7","8","9",":",";","<","=",">","?","@",
      "A","B","C","D","E","F","G","H","I","J","K","L","M","N","O","P","Q",
      "R","S","T","U","V","W","X","Y","Z","[","\\","]","^","_","a",
      "b","c","d","e","f","g","h","i","j","k","l","m","n","o","p","q","r",
      "s","t","u","v","w","x","y","z","{","|","}","~">>

\* The rank of a character in that order, which is what ord(c) is compared by.
ord(c) == CHOOSE i \in 1..Len(Ascii) : Ascii[i] = c

\* Python's a < b on str: by code point at the first difference, a proper
\* prefix first.
str_lt(a, b) ==
    LET n == IF Len(a) < Len(b) THEN Len(a) ELSE Len(b)
        diff == {i \in 1..n : a[i] # b[i]}
    IN  IF diff = {} THEN Len(a) < Len(b)
        ELSE ord(a[SetMin(diff)]) < ord(b[SetMin(diff)])

\* The protocol field as text.
ProtocolText ==
    [QIDO |-> <<"Q","I","D","O">>, WADO |-> <<"W","A","D","O">>, STOW |-> <<"S","T","O","W">>]

\* Python's stable sort (list.sort and sorted); less[i, j] tells whether the
\* key of s[i] is less than the key of s[j].  s[j] comes before s[i] when its
\* key is less, or is equal and j is before i.
sorted(s, less) ==
    LET before(i) == {j \in 1..Len(s) :
                         less[j, i] \/ (j < i /\ ~less[i, j])}
    IN  [k \in 1..Len(s) |->
            s[CHOOSE i \in 1..Len(s) : Cardinality(before(i)) = k - 1]]

\* Tuple order of the key (x["status"] != "PASS", x["test_name"]): False is
\* less than True.
status_name_less(x, y) ==
    IF (x.status # "PASS") # (y.status # "PASS") THEN x.status = "PASS"
    ELSE str_lt(x.test_name, y.test_name)

\* Tuple order of the key (x.protocol, x.status != "PASS", x.test_name).
protocol_status_name_less(x, y) ==
    IF x.protocol # y.protocol
    THEN str_lt(ProtocolText[x.protocol], ProtocolText[y.protocol])
    ELSE status_name_less(x, y)

\* The lists of test_results_by_protocol.  An entry holds the name, status
\* and response time of its outcome; message, timestamp, recommendation and
\* the request and response details are copied alike.
results_by_protocol(test_results) ==
    [protocol \in {"QIDO", "WADO", "STOW"} |->
        LET protocol_results ==
                SelectSeq(test_results, LAMBDA r : r.protocol = protocol)
            entries == [i \in 1..Len(protocol_results) |->
                           [test_name |-> protocol_results[i].test_name,
                            status |-> protocol_results[i].status,
                            response_time |->
                                protocol_results[i].response_time]]
        IN  sorted(entries,
                   [i, j \in DOMAIN entries |->
                       status_name_less(entries[i], entries[j])])]

\* all_test_results in the order of the ledger.
all_test_results_unsorted(test_results) ==
    [i \in 1..Len(test_results) |->
        [test_name |-> test_results[i].test_name,
         protocol |-> test_results[i].protocol,
         status |-> test_results[i].status,
         response_time |-> test_results[i].response_time]]

\* The list all_test_results; an entry holds the protocol as well.
all_test_results(test_results) ==
    LET ordered == sorted(test_results,
                          [i, j \in DOMAIN test_results |->
                              protocol_status_name_less(test_results[i],
                                                        test_results[j])])
    IN  [i \in 1..Len(ordered) |->
            [test_name |-> ordered[i].test_name,
             protocol |-> ordered[i].protocol,
             status |-> ordered[i].status,
             response_time |-> ordered[i].response_time]]

\* _generate_json_report, without report_metadata (clock and platform).
_generate_json_report(test_results, summary) ==
    [summary |-> summary,
     test_results_by_protocol |-> results_by_protocol(test_results),
     all_test_results |-> all_test_results(test_results)]

\* ---- run_test_suite's calls of the report generator.  A Python call binds
\* its keyword arguments to the parameters of the signature and raises
\* TypeError on a keyword the signature does not have.
generate_reports_parameters == {"test_results", "output_format", "output_file"}

\* The keywords of the call at run_tests.py line 277.
generate_reports_keywords ==
    {"test_results", "output_format", "output_file", "pacs_url", "username",
     "password"}

Binds(keywords, parameters) == keywords \subseteq parameters

\* ------------------------------------------------------------------ state
VARIABLES
    test_results,   \* the ledger: DICOMwebBaseTest.test_results / all_results
    summary,        \* what _generate_summary returned, NoSummary before
    level_arg,      \* the score _determine_conformance_level is called on alone
    level_ret,      \* what that call returned, NoLevel before
    json_report,    \* what _generate_json_report returned, NoReport before
    raised,         \* the exception that ended run_test_suite, "" for none
    vendor_call,    \* the arguments identify_vendor is called with
    vendor_ret,     \* the outcome of that call, NoReturn before
    to_dict_self,   \* the profile VendorProfile.to_dict is called on
    to_dict_ret,    \* what that call returned, NoDict before
    now,            \* the reading of the clock, datetime.now()
    last_call,      \* the last call on the executor: operation, arguments
                    \* and return value, NoCall before
    run,            \* run_tests at work: the executor's protocol, the index
                    \* of the check to call next and how the call ended
    main,           \* the main thread in a concurrent check: the check, its
                    \* position and its loop index
    threads,        \* the worker threads of that check: their positions and
                    \* the outcome of each one's request
    results,        \* the check-local list results
    errors          \* the check-local list errors

vars == <<test_results, summary, level_arg, level_ret, json_report, raised,
          vendor_call, vendor_ret, to_dict_self, to_dict_ret, now, last_call,
          run, main, threads, results, errors>>

scoring_vars == <<test_results, summary, level_arg, level_ret>>
report_vars == <<json_report, raised>>
vendor_vars == <<vendor_call, vendor_ret, to_dict_self, to_dict_ret>>
executor_vars == <<now, last_call, run, main, threads, results, errors>>
worker_vars == <<main, threads, results, errors>>

NoSummary == [none |-> "no summary"]
NoScore == [none |-> "no score"]
NoLevel == "no level"
NoReport == [none |-> "no report"]
NoCall == [none |-> "no call"]
NoReturn == [none |-> "no return"]
NoDict == [none |-> "no dict"]

NoRun == [none |-> "no run"]
NoCheck == [none |-> "no check"]

\* No concurrent check is at work.
WorkersIdle ==
    /\ main = NoCheck
    /\ threads = <<>>
    /\ results = <<>>
    /\ errors = <<>>

\* No executor is at work: the clock stands and no call was made.
ExecutorIdle ==
    /\ now = 0
    /\ last_call = NoCall
    /\ run = NoRun
    /\ WorkersIdle

\* ----------------------------------------------------------------- inputs
\* The outcomes the executors record in a session of Spec.
RecordedOutcomes ==
    {TestResult(BasicPatientQuery, "QIDO", "FAIL", 120),
     TestResult(StoreWithAuthentication, "STOW", "FAIL", 250),
     TestResult(AuthenticationRequirements, "WADO", "FAIL", 85),
     TestResult(LargeFilePerformance, "WADO", "FAIL", 900),
     TestResult(InvalidStudyUID, "WADO", "FAIL", 40),
     TestResult(ErrorResponseHandling, "WADO", "FAIL", 0),
     TestResult(StudyMetadataRetrieval, "WADO", "FAIL", 310),
     TestResult(BasicPatientQuery, "QIDO", "PASS", 120),
     TestResult(ContentTypeValidation, "WADO", "PASS", 33),
     TestResult(StoreWithAuthentication, "STOW", "SKIP", 0)}

Repeat(x, n) == [i \in 1..n |-> x]

\* A ledger of p PASS, then f FAIL, then s SKIP outcomes.
Ledger(p, f, s) ==
    Repeat(TestResult(BasicPatientQuery, "QIDO", "PASS", 0), p)
    \o Repeat(TestResult(AcceptHeaderHandling, "WADO", "FAIL", 0), f)
    \o Repeat(TestResult(StoreWithAuthentication, "STOW", "SKIP", 0), s)

CountLedgers == {Ledger(p, f, s) : p, f, s \in 0..MaxCount}

\* Ledgers long enough for a score within 0.005 of 100.  Their response times
\* are 0, so that no sum is taken over them.
LargeLedgers ==
    {Ledger(p, f, s) : p \in LargePassed..(LargePassed + 2), f \in 0..2,
                       s \in 0..1}

\* One failed test per bucket, each repeated up to MaxOver past its threshold.
BucketLedgers ==
    {Repeat(TestResult(BasicPatientQuery, "QIDO", "FAIL", 0), b)
     \o Repeat(TestResult(AuthenticationRequirements, "WADO", "FAIL", 0), a)
     \o Repeat(TestResult(LargeFilePerformance, "WADO", "FAIL", 0), p)
     \o Repeat(TestResult(InvalidStudyUID, "WADO", "FAIL", 0), e)
     \o Repeat(TestResult(AcceptHeaderHandling, "WADO", "FAIL", 0), c) :
        b \in 0..(Threshold.basic_operations + MaxOver),
        a \in 0..(Threshold.authentication + MaxOver),
        p \in 0..(Threshold.performance + MaxOver),
        e \in 0..(Threshold.error_handling + MaxOver),
        c \in 0..(Threshold.compliance + MaxOver)}

\* Scenario C of the specification, and the same with two failures only.
ScenarioC ==
    <<TestResult(BasicPatientQuery, "QIDO", "FAIL", 0),
      TestResult(BasicStudyQuery, "QIDO", "FAIL", 0),
      TestResult(BasicSeriesQuery, "QIDO", "FAIL", 0)>>

ScenarioLedgers == {ScenarioC, SubSeq(ScenarioC, 1, 2)}

\* Ledgers whose score lies less than 0.005 below a threshold of the level
\* table (89.99502, 74.99500, 59.99500 and 39.99500), the one of 90.04, and
\* each with a SKIP outcome more.
NearThresholdLedgers ==
    {Ledger(c[1], c[2], s) :
        c \in {<<1808, 201>>, <<1809, 200>>, <<11250, 3751>>, <<2401, 1601>>,
               <<1601, 2402>>},
        s \in 0..1}

\* Calls of _record_test_result: the required arguments alone, or with a
\* recommendation and the standards fields of one requirement level.
RecordArguments ==
    LET required ==
            {[test_name |-> c[1], protocol |-> c[2], status |-> c[3],
              message |-> <<"o","k">>, response_time |-> c[4],
              request_details |-> EmptyDict, response_details |-> EmptyDict] :
                c \in {<<BasicPatientQuery, "QIDO", "PASS", 120>>,
                       <<BasicPatientQuery, "QIDO", "FAIL", 120>>,
                       <<LargeFilePerformance, "WADO", "FAIL", 900>>,
                       <<LargeFilePerformance, "WADO", "SKIP", 0>>}}
        standards(level) ==
            [message |-> <<"H","T","T","P"," ","5","0","0">>,
             request_details |-> [method |-> "GET"],
             response_details |-> [status_code |-> 500],
             recommendation |-> <<"C","h","e","c","k"," ","l","o","g","s">>,
             mapping_id |-> <<"Q","I","D","O","_","0","0","1">>,
             requirement |-> <<"S","t","u","d","i","e","s"," ","e","n","d",
                               "p","o","i","n","t">>,
             requirement_level |-> level]
    IN  required
        \cup {standards(level) @@ r :
                 r \in required,
                 level \in {<<"S","H","A","L","L">>, <<"S","H","O","U","L","D">>,
                            <<"M","A","Y">>}}

\* Ledgers of up to MaxTagged outcomes recorded by such calls, one per tick
\* of the clock.
MaxTagged == 2

TaggedLedgers ==
    UNION {{[i \in 1..n |-> TestResultOf(calls[i], i)] :
               calls \in [1..n -> RecordArguments]} : n \in 1..MaxTagged}

ScoringInputs ==
    CountLedgers \cup LargeLedgers \cup BucketLedgers \cup ScenarioLedgers
    \cup NearThresholdLedgers \cup TaggedLedgers

\* Scores with two decimals, 0.00 to MaxScoreArg/100.
LevelInputs == {[num |-> h, den |-> 100] : h \in 0..MaxScoreArg}

\* ---- inputs of the vendor identification
\* Base URLs: a DICOMweb root, one below a path prefix and with a trailing
\* slash, one that carries the credentials in its authority, and one whose
\* authority urlsplit rejects.
BaseUrls ==
    {<<"h","t","t","p",":","/","/","h","/","d","i","c","o","m","-","w","e",
      "b">>,
     <<"h","t","t","p",":","/","/","h","/","x","/","d","i","c","o","m","-","w",
      "e","b","/">>,
     <<"h","t","t","p",":","/","/","a","l",":","p","w","@","h","/","d","i","c",
      "o","m","-","w","e","b">>,
     <<"h","t","t","p",":","/","/","[","h","/","d","i","c","o","m","-","w","e",
      "b">>}

UserName == <<"a","l">>
PassWord == <<"p","w">>

VendorCalls ==
    {[base_url |-> b, username |-> c[1], password |-> c[2]] :
        b \in BaseUrls,
        c \in {<<NoCredential, NoCredential>>, <<UserName, PassWord>>}}

\* What the remote side can do on one request: fail to connect, time out,
\* answer as Orthanc's /system does, as an nginx front with cookies and an
\* upper-case Authorization header, with a 404 page, as dcm4chee behind a
\* proxy, with the authenticated user's name in a header and in the body, or
\* with a 401 whose JSON body has the Orthanc marker, or an Orthanc /system
\* answer whose Version is empty beside its OrthancVersion, or a JSON string
\* whose text is one character longer than the preview keeps, or a JSON
\* array that holds the word Orthanc.
Replies ==
    {Failure("ConnectionError"),
     Failure("Timeout"),
     Response(200, <<<<<<"S","e","r","v","e","r">>, Orthanc>>>>,
              Json("dict", <<>>, <<>>, <<<<<<"V","e","r","s","i","o","n">>, Json("str", <<"1",".","1","2">>, <<>>, <<>>)>>,
                         <<<<"P","l","u","g","i","n","s">>, Json("list", <<>>, <<<<"d","i","c","o","m","-","w","e","b">>>>, <<>>)>>>>)),
     Response(200,
              <<<<<<"S","e","r","v","e","r">>, <<"n","g","i","n","x">>>>,
                <<<<"S","e","t","-","C","o","o","k","i","e">>, <<"s","=","1">>>>,
                <<<<"A","U","T","H","O","R","I","Z","A","T","I","O","N">>, <<"B","a","s","i","c"," ","x">>>>,
                <<<<"C","o","n","t","e","n","t","-","T","y","p","e">>, <<"a","p","p","l","i","c","a","t","i","o","n","/","d","i","c","o","m","+",
      "j","s","o","n">>>>>>,
              Json("list", <<>>, <<>>, <<>>)),
     Response(404,
              <<<<<<"S","e","r","v","e","r">>, <<"n","g","i","n","x">>>>,
                <<<<"C","o","n","t","e","n","t","-","T","y","p","e">>, <<"t","e","x","t","/","h","t","m","l">>>>>>,
              NotJson),
     Response(200,
              <<<<<<"X","-","P","o","w","e","r","e","d","-","B","y">>, <<"D","C","M","4","C","H","E","E","-","a","r","c">>>>,
                <<<<"c","o","o","k","i","e">>, <<"c","=","2">>>>,
                <<<<"P","r","o","x","y","-","A","u","t","h","o","r","i","z","a","t","i","o",
      "n">>, <<"B","a","s","i","c"," ","y">>>>>>,
              NotJson),
     Response(200, <<<<<<"X","-","R","e","m","o","t","e","-","U","s","e","r">>, UserName>>>>,
              Json("dict", <<>>, <<>>, <<<<<<"u","s","e","r">>, Json("str", UserName, <<>>, <<>>)>>>>)),
     Response(401, <<<<<<"W","W","W","-","A","u","t","h","e","n","t","i","c","a","t","e">>, <<"B","a","s","i","c">>>>>>,
              Json("dict", <<>>, <<>>, <<<<<<"O","r","t","h","a","n","c","V","e","r","s","i","o","n">>, Json("str", <<"1",".","0">>, <<>>, <<>>)>>>>)),
     Response(200, <<>>,
              Json("dict", <<>>, <<>>, <<<<<<"V","e","r","s","i","o","n">>, Json("str", <<>>, <<>>, <<>>)>>,
                         <<<<"O","r","t","h","a","n","c","V","e","r","s","i","o","n">>, Json("str", <<"1",".","0">>, <<>>, <<>>)>>>>)),
     Response(200, <<>>,
              Json("str", Repeat("a", PreviewMax - 1), <<>>, <<>>)),
     Response(200, <<>>, Json("list", <<>>, <<Orthanc>>, <<>>))}

\* A remote side for one call: its doing on each request the call can issue,
\* one for each direct candidate and one for the protocol probe.
Remotes(base_url) == [1..(Len(candidates(base_url)) + 1) -> Replies]

\* Profiles to_dict is called on: a default profile whose additional_hints
\* were given any of these entries upstream.
ToDictInputs ==
    {VendorProfile(Unknown, Unknown, <<>>, b, <<>>, <<>>, <<>>,
                   [k \in keys |-> IF k = "note" THEN Note ELSE PassWord]) :
        b \in BaseUrls,
        keys \in SUBSET {"note", "credentials", "username", "password",
                         "authorization"}}

\* ---------------------------------------------------------------- actions
\* DICOMwebBaseTest._record_test_result: one entry is appended to the ledger.
\* The executors have all run before the report generator is called.
_record_test_result(result) ==
    /\ summary = NoSummary
    /\ raised = ""
    /\ Len(test_results) < MaxLedger
    /\ test_results' = Append(test_results, result)
    /\ UNCHANGED <<summary, level_arg, level_ret>>
    /\ UNCHANGED <<report_vars, vendor_vars>>
    /\ UNCHANGED executor_vars

\* ConformanceReportGenerator._generate_summary on the ledger.
GenerateSummary ==
    /\ summary = NoSummary
    /\ raised = ""
    /\ summary' \in _generate_summary(test_results)
    /\ UNCHANGED <<test_results, level_arg, level_ret>>
    /\ UNCHANGED <<report_vars, vendor_vars>>
    /\ UNCHANGED executor_vars

\* ConformanceReportGenerator._determine_conformance_level on a given score.
DetermineConformanceLevel ==
    /\ level_arg # NoScore
    /\ level_ret = NoLevel
    /\ level_ret' = _determine_conformance_level(level_arg)
    /\ UNCHANGED <<test_results, summary, level_arg>>
    /\ UNCHANGED <<report_vars, vendor_vars>>
    /\ UNCHANGED executor_vars

\* ConformanceReportGenerator._generate_json_report on the ledger and its
\* summary, as generate_reports calls it.
GenerateJsonReport ==
    /\ summary # NoSummary
    /\ json_report = NoReport
    /\ json_report' = _generate_json_report(test_results, summary)
    /\ UNCHANGED <<scoring_vars, raised, vendor_vars>>
    /\ UNCHANGED executor_vars

\* run_test_suite from line 277 on, the executors having finished: the call
\* of generate_reports with the keywords pacs_url, username and password.
\* With a signature that takes them, generate_reports would return the
\* reports; with the signature of conformance_report.py the call raises
\* TypeError before its body runs, run_test_suite ends there, and main
\* prints the error and exits.
run_test_suite_reports ==
    /\ summary = NoSummary
    /\ raised = ""
    /\ IF Binds(generate_reports_keywords, generate_reports_parameters)
       THEN /\ summary' \in _generate_summary(test_results)
            /\ json_report' = _generate_json_report(test_results, summary')
            /\ raised' = ""
       ELSE /\ raised' = "TypeError"
            /\ UNCHANGED <<summary, json_report>>
    /\ UNCHANGED <<test_results, level_arg, level_ret, vendor_vars>>
    /\ UNCHANGED executor_vars

\* identify_vendor on the arguments of the call, against a remote side that
\* answers each request in any of the ways of Replies.
IdentifyVendor ==
    /\ vendor_call # NoCall
    /\ vendor_ret = NoReturn
    /\ \E remote \in Remotes(vendor_call.base_url) :
           vendor_ret' = identify_vendor(vendor_call.base_url,
                                         vendor_call.username,
                                         vendor_call.password, remote)
    /\ UNCHANGED <<scoring_vars, report_vars, vendor_call, to_dict_self,
                   to_dict_ret>>
    /\ UNCHANGED executor_vars

\* VendorProfile.to_dict on a given profile.
ToDict ==
    /\ to_dict_self # NoProfile
    /\ to_dict_ret = NoDict
    /\ to_dict_ret' = to_dict(to_dict_self)
    /\ UNCHANGED <<scoring_vars, report_vars, vendor_call, vendor_ret,
                   to_dict_self>>
    /\ UNCHANGED executor_vars

\* DICOMwebBaseTest._record_test_result called with the arguments args: the
\* TestResult is built with the clock's reading and appended, and the call
\* returns None.  Time passes with each call.
RecordTestResult(args) ==
    /\ Len(test_results) < MaxLedger
    /\ test_results' = Append(test_results, TestResultOf(args, now))
    /\ now' = now + 1
    /\ last_call' = [op |-> "_record_test_result", arg |-> args,
                     ret |-> None]
    /\ UNCHANGED <<summary, level_arg, level_ret, report_vars, vendor_vars>>
    /\ UNCHANGED <<run, worker_vars>>

\* DICOMwebBaseTest.get_results_by_status
GetResultsByStatus(status) ==
    /\ last_call' = [op |-> "get_results_by_status",
                     arg |-> [status |-> status],
                     ret |-> get_results_by_status(test_results, status)]
    /\ UNCHANGED <<scoring_vars, report_vars, vendor_vars, now>>
    /\ UNCHANGED <<run, worker_vars>>

\* DICOMwebBaseTest.get_results_by_protocol
GetResultsByProtocol(protocol) ==
    /\ last_call' = [op |-> "get_results_by_protocol",
                     arg |-> [protocol |-> protocol],
                     ret |-> get_results_by_protocol(test_results, protocol)]
    /\ UNCHANGED <<scoring_vars, report_vars, vendor_vars, now>>
    /\ UNCHANGED <<run, worker_vars>>

\* DICOMwebBaseTest.get_summary
GetSummary ==
    /\ last_call' = [op |-> "get_summary", arg |-> EmptyDict,
                     ret |-> get_summary(test_results)]
    /\ UNCHANGED <<scoring_vars, report_vars, vendor_vars, now>>
    /\ UNCHANGED <<run, worker_vars>>

\* The number of checks of one run that take another path than one that
\* records PASS.
MaxNotPassed == 2

\* One statement self._test_...() of run_tests: the next check runs along one
\* of its paths, and each call of _record_test_result on the path appends
\* an outcome under the check's test_name and the executor's protocol.  An
\* exception that leaves the check ends run_tests.
RunTestsCheck ==
    /\ run # NoRun
    /\ run.ended = ""
    /\ run.next <= Len(Checks(run.protocol))
    /\ \E path \in Checks(run.protocol)[run.next].paths :
           LET check == Checks(run.protocol)[run.next]
               args(record) ==
                   [test_name |-> check.test_name,
                    protocol |-> run.protocol,
                    status |-> record.status,
                    message |-> <<"c","h","e","c","k","e","d">>,
                    response_time |-> IF record.timed THEN 120 ELSE 0,
                    request_details |-> [method |-> "GET"],
                    response_details |-> EmptyDict,
                    recommendation |-> <<"C","h","e","c","k"," ","l","o","g",
                                         "s">>]
               passed == \E i \in DOMAIN path.records :
                             path.records[i].status = "PASS"
           IN  /\ passed
                  \/ Len(SelectSeq(test_results, LAMBDA r : r.status # "PASS"))
                         < MaxNotPassed
               /\ test_results' =
                      test_results
                      \o [i \in DOMAIN path.records |->
                             TestResultOf(args(path.records[i]), now + i - 1)]
               /\ now' = now + Len(path.records)
               /\ run' = IF path.raises THEN [run EXCEPT !.ended = "raised"]
                         ELSE [run EXCEPT !.next = @ + 1]
    /\ UNCHANGED <<summary, level_arg, level_ret, report_vars, vendor_vars>>
    /\ UNCHANGED <<last_call, worker_vars>>

\* return self.test_results, after the last check.
RunTestsReturn ==
    /\ run # NoRun
    /\ run.ended = ""
    /\ run.next = Len(Checks(run.protocol)) + 1
    /\ run' = [run EXCEPT !.ended = "returned"]
    /\ last_call' = [op |-> "run_tests", arg |-> EmptyDict,
                     ret |-> test_results]
    /\ UNCHANGED <<scoring_vars, report_vars, vendor_vars, now, worker_vars>>

\* The body of the loop that creates the threads: a Thread is made for the
\* worker function, appended to threads and started.
ThreadStart ==
    /\ main # NoCheck
    /\ main.pc = "start"
    /\ threads' = Append(threads, [pc |-> "running", reply |-> NoReply])
    /\ main' = IF Len(threads') = NumThreads
               THEN [main EXCEPT !.pc = "join", !.i = 1]
               ELSE [main EXCEPT !.i = @ + 1]
    /\ UNCHANGED <<scoring_vars, report_vars, vendor_vars, now, last_call,
                   run, results, errors>>

\* A worker up to the end of its request: _make_request returns or raises.
WorkerRequest(w) ==
    /\ w \in DOMAIN threads
    /\ threads[w].pc = "running"
    /\ \E reply \in WorkerReplies :
           threads' = [threads EXCEPT ![w] = [pc |-> "replied",
                                              reply |-> reply]]
    /\ UNCHANGED <<scoring_vars, report_vars, vendor_vars, now, last_call,
                   run, main, results, errors>>

\* A worker from there on: results.append(...) after a response,
\* errors.append(str(e)) in the handler, and the thread terminates.
WorkerAppend(w) ==
    /\ w \in DOMAIN threads
    /\ threads[w].pc = "replied"
    /\ IF threads[w].reply.kind = "response"
       THEN /\ results' = Append(results,
                                 result_entry(main.check, threads[w].reply))
            /\ UNCHANGED errors
       ELSE /\ errors' = Append(errors, <<"C","o","n","n","e","c","t","i","o",
                                          "n","E","r","r","o","r">>)
            /\ UNCHANGED results
    /\ threads' = [threads EXCEPT ![w].pc = "done"]
    /\ UNCHANGED <<scoring_vars, report_vars, vendor_vars, now, last_call,
                   run, main>>

\* The body of the loop that joins the threads, in the order of their start.
ThreadJoin ==
    /\ main # NoCheck
    /\ main.pc = "join"
    /\ joined(threads, main.i)
    /\ main' = IF main.i = Len(threads)
               THEN [main EXCEPT !.pc = "evaluate"]
               ELSE [main EXCEPT !.i = @ + 1]
    /\ UNCHANGED <<scoring_vars, report_vars, vendor_vars, now, last_call,
                   run, threads, results, errors>>

\* The main thread after the joins: the outcome of the check is recorded.
RecordConcurrentCheck ==
    /\ main # NoCheck
    /\ main.pc = "evaluate"
    /\ test_results' =
           Append(test_results,
                  TestResultOf(concurrent_outcome(main.check, main.protocol,
                                                  results, errors), now))
    /\ now' = now + 1
    /\ main' = [main EXCEPT !.pc = "end"]
    /\ UNCHANGED <<summary, level_arg, level_ret, report_vars, vendor_vars>>
    /\ UNCHANGED <<last_call, run, threads, results, errors>>

\* ----------------------------------------------------------- specifications
\* A session: the executors record outcomes, then the summary is generated.
Init ==
    /\ test_results = <<>>
    /\ summary = NoSummary
    /\ level_arg = NoScore
    /\ level_ret = NoLevel
    /\ json_report = NoReport
    /\ raised = ""
    /\ vendor_call = NoCall
    /\ vendor_ret = NoReturn
    /\ to_dict_self = NoProfile
    /\ to_dict_ret = NoDict
    /\ ExecutorIdle

Next ==
    \/ \E result \in RecordedOutcomes : _record_test_result(result)
    \/ GenerateSummary
    \/ GenerateJsonReport
    \/ run_test_suite_reports

Spec == Init /\ [][Next]_vars

\* The scoring engine as a function of a given ledger.
InitScoring ==
    /\ test_results \in ScoringInputs
    /\ summary = NoSummary
    /\ level_arg = NoScore
    /\ level_ret = NoLevel
    /\ json_report = NoReport
    /\ raised = ""
    /\ vendor_call = NoCall
    /\ vendor_ret = NoReturn
    /\ to_dict_self = NoProfile
    /\ to_dict_ret = NoDict
    /\ ExecutorIdle

NextScoring == GenerateSummary

SpecScoring == InitScoring /\ [][NextScoring]_vars

\* The level thresholds as a function of a given score.
InitLevel ==
    /\ test_results = <<>>
    /\ summary = NoSummary
    /\ level_arg \in LevelInputs
    /\ level_ret = NoLevel
    /\ json_report = NoReport
    /\ raised = ""
    /\ vendor_call = NoCall
    /\ vendor_ret = NoReturn
    /\ to_dict_self = NoProfile
    /\ to_dict_ret = NoDict
    /\ ExecutorIdle

NextLevel == DetermineConformanceLevel

SpecLevel == InitLevel /\ [][NextLevel]_vars

\* identify_vendor as a function of its arguments and of the remote side.
InitVendor ==
    /\ test_results = <<>>
    /\ summary = NoSummary
    /\ level_arg = NoScore
    /\ level_ret = NoLevel
    /\ json_report = NoReport
    /\ raised = ""
    /\ vendor_call \in VendorCalls
    /\ vendor_ret = NoReturn
    /\ to_dict_self = NoProfile
    /\ to_dict_ret = NoDict
    /\ ExecutorIdle

NextVendor == IdentifyVendor

SpecVendor == InitVendor /\ [][NextVendor]_vars

\* VendorProfile.to_dict as a function of a given profile.
InitToDict ==
    /\ test_results = <<>>
    /\ summary = NoSummary
    /\ level_arg = NoScore
    /\ level_ret = NoLevel
    /\ json_report = NoReport
    /\ raised = ""
    /\ vendor_call = NoCall
    /\ vendor_ret = NoReturn
    /\ to_dict_self \in ToDictInputs
    /\ to_dict_ret = NoDict
    /\ ExecutorIdle

NextToDict == ToDict

SpecToDict == InitToDict /\ [][NextToDict]_vars

\* One executor and its ledger: outcomes are recorded, without the standards
\* fields or with those of a SHALL requirement, and the ledger is queried
\* between the recordings.
InitLedger ==
    /\ test_results = <<>>
    /\ summary = NoSummary
    /\ level_arg = NoScore
    /\ level_ret = NoLevel
    /\ json_report = NoReport
    /\ raised = ""
    /\ vendor_call = NoCall
    /\ vendor_ret = NoReturn
    /\ to_dict_self = NoProfile
    /\ to_dict_ret = NoDict
    /\ ExecutorIdle

NextLedger ==
    \/ \E args \in RecordArguments :
           /\ "requirement_level" \in DOMAIN args
                  => args.requirement_level = <<"S","H","A","L","L">>
           /\ RecordTestResult(args)
    \/ \E status \in {"PASS", "FAIL", "SKIP"} : GetResultsByStatus(status)
    \/ \E protocol \in {"QIDO", "WADO", "STOW"} : GetResultsByProtocol(protocol)
    \/ GetSummary

SpecLedger == InitLedger /\ [][NextLedger]_vars

\* run_tests on a fresh executor of each protocol.
InitRunTests ==
    /\ test_results = <<>>
    /\ summary = NoSummary
    /\ level_arg = NoScore
    /\ level_ret = NoLevel
    /\ json_report = NoReport
    /\ raised = ""
    /\ vendor_call = NoCall
    /\ vendor_ret = NoReturn
    /\ to_dict_self = NoProfile
    /\ to_dict_ret = NoDict
    /\ now = 0
    /\ last_call = NoCall
    /\ run \in {[protocol |-> p, next |-> 1, ended |-> ""] :
                   p \in {"QIDO", "WADO", "STOW"}}
    /\ WorkersIdle

NextRunTests ==
    \/ RunTestsCheck
    \/ RunTestsReturn

SpecRunTests == InitRunTests /\ [][NextRunTests]_vars

\* One concurrent check of a fresh executor, its main thread and its workers
\* interleaved in every way.
InitWorkers ==
    /\ test_results = <<>>
    /\ summary = NoSummary
    /\ level_arg = NoScore
    /\ level_ret = NoLevel
    /\ json_report = NoReport
    /\ raised = ""
    /\ vendor_call = NoCall
    /\ vendor_ret = NoReturn
    /\ to_dict_self = NoProfile
    /\ to_dict_ret = NoDict
    /\ now = 0
    /\ last_call = NoCall
    /\ run = NoRun
    /\ main \in {[check |-> "_test_concurrent_uploads", protocol |-> "STOW",
                  pc |-> "start", i |-> 1],
                 [check |-> "_test_concurrent_retrieval", protocol |-> "WADO",
                  pc |-> "start", i |-> 1]}
    /\ threads = <<>>
    /\ results = <<>>
    /\ errors = <<>>

NextWorkers ==
    \/ ThreadStart
    \/ \E w \in 1..NumThreads : WorkerRequest(w)
    \/ \E w \in 1..NumThreads : WorkerAppend(w)
    \/ ThreadJoin
    \/ RecordConcurrentCheck

SpecWorkers == InitWorkers /\ [][NextWorkers]_vars

\* ------------------------------------------------------------------ claims
Summarized == summary # NoSummary

\* C1 as stated: the compliance score of a summary lies in [0,100] and is 100
\* exactly when no test failed and at least one test was not skipped.
C1_ScoreIs100IffNoFailure ==
    Summarized =>
        /\ summary.compliance_score \in 0..10000
        /\ summary.compliance_score = 10000 <=>
              /\ summary.failed_tests = 0
              /\ summary.total_tests - summary.skipped_tests > 0

\* C1 as amended: the compliance score lies in [0,100]; it is 100 whenever no
\* test failed and at least one test was not skipped; and it is 100 only if
\* at least one test was not skipped and at most one in 20000 of the tests
\* not skipped failed (the score is rounded to two decimals), so that for
\* fewer than 20000 tests not skipped it is 100 exactly when none failed.
C1_ScoreIs100UpToRounding ==
    Summarized =>
        LET scored == summary.total_tests - summary.skipped_tests
        IN  /\ summary.compliance_score \in 0..10000
            /\ (summary.failed_tests = 0 /\ scored > 0)
                  => summary.compliance_score = 10000
            /\ summary.compliance_score = 10000
                  => scored > 0 /\ summary.failed_tests * 20000 <= scored
            /\ scored < 20000 =>
                  (summary.compliance_score = 10000 <=>
                      (summary.failed_tests = 0 /\ scored > 0))

\* A summary of a ledger with skipped tests and no failure scores 100.
C1_Witness ==
    /\ Summarized
    /\ summary.skipped_tests > 0
    /\ summary.failed_tests = 0
    /\ summary.passed_tests > 0
    /\ summary.compliance_score = 10000

\* C2: the compliance score is passed/(total - skipped)*100, so the score and
\* the level of a ledger are those of the ledger without its SKIP outcomes,
\* and those of the ledger with one more SKIP outcome at either end; 8 PASS,
\* 1 FAIL and 1 SKIP score 88.89 and GOOD.
C2_SkipsLeaveScoreUnchanged ==
    Summarized =>
        LET scored == summary.total_tests - summary.skipped_tests
            skip == TestResult(ErrorResponseHandling, "WADO", "SKIP", 0)
            ScoreAndLevel(s) ==
                [score |-> s.compliance_score, level |-> s.conformance_level]
            Same(ledger) ==
                ScoreAndLevel(summary) \in
                    {ScoreAndLevel(s) : s \in _generate_summary(ledger)}
        IN  /\ scored > 0 =>
                summary.compliance_score \in
                    RoundDiv(summary.passed_tests * 100, 100, scored)
            /\ Same(SelectSeq(test_results, LAMBDA r : r.status # "SKIP"))
            /\ Same(Append(test_results, skip))
            /\ Same(<<skip>> \o test_results)
            /\ test_results = Ledger(8, 1, 1) =>
                  /\ summary.compliance_score = 8889
                  /\ summary.conformance_level = "GOOD"

\* The summary of 8 PASS, 1 FAIL and 1 SKIP.
C2_Witness ==
    /\ Summarized
    /\ test_results = Ledger(8, 1, 1)
    /\ summary.compliance_score = 8889

\* C3: the summary of the empty ledger has every count 0, pass rate 0, score 0
\* and level NON_COMPLIANT; the summary of a ledger of SKIP outcomes only has
\* the ledger's length as total, pass rate 0, score 0 and level NON_COMPLIANT.
C3_DegenerateLedgers ==
    Summarized =>
        /\ test_results = <<>> =>
              /\ summary.total_tests = 0 /\ summary.passed_tests = 0
              /\ summary.failed_tests = 0 /\ summary.skipped_tests = 0
              /\ summary.critical_failures = 0
              /\ \A protocol \in DOMAIN summary.protocol_statistics :
                    summary.protocol_statistics[protocol].total = 0
              /\ summary.pass_rate = 0
              /\ summary.compliance_score = 0
              /\ summary.conformance_level = "NON_COMPLIANT"
        /\ (/\ test_results # <<>>
            /\ \A i \in DOMAIN test_results : test_results[i].status = "SKIP") =>
              /\ summary.total_tests = Len(test_results)
              /\ summary.skipped_tests = Len(test_results)
              /\ summary.pass_rate = 0
              /\ summary.compliance_score = 0
              /\ summary.conformance_level = "NON_COMPLIANT"

\* The summary of five SKIP outcomes.
C3_Witness ==
    /\ Summarized
    /\ test_results = Ledger(0, 0, 5)
    /\ summary.total_tests = 5

\* C4: the level of a score is EXCELLENT from 90, GOOD from 75 and below 90,
\* ACCEPTABLE from 60 and below 75, POOR from 40 and below 60, NON_COMPLIANT
\* below 40.
C4_LevelThresholds ==
    level_ret # NoLevel =>
        LET h == level_arg.num
        IN  /\ level_arg.den = 100
            /\ level_ret = "EXCELLENT" <=> h >= 9000
            /\ level_ret = "GOOD" <=> (7500 <= h /\ h < 9000)
            /\ level_ret = "ACCEPTABLE" <=> (6000 <= h /\ h < 7500)
            /\ level_ret = "POOR" <=> (4000 <= h /\ h < 6000)
            /\ level_ret = "NON_COMPLIANT" <=> h < 4000
            /\ h = 9000 => level_ret = "EXCELLENT"
            /\ h = 8999 => level_ret = "GOOD"
            /\ h = 6000 => level_ret = "ACCEPTABLE"
            /\ h = 5999 => level_ret = "POOR"
            /\ h = 4000 => level_ret = "POOR"
            /\ h = 3999 => level_ret = "NON_COMPLIANT"

\* The level of the score 89.99 has been determined.
C4_Witness ==
    /\ level_arg = [num |-> 8999, den |-> 100]
    /\ level_ret = "GOOD"

Range(f) == {f[i] : i \in DOMAIN f}

\* The ledger reordered by a permutation pi of its indices.
Reordered(ledger, pi) == [i \in 1..Len(ledger) |-> ledger[pi[i]]]

\* The part of a summary that C5 is about (all but the performance metrics).
Scores(s) ==
    [total_tests |-> s.total_tests, passed_tests |-> s.passed_tests,
     failed_tests |-> s.failed_tests, skipped_tests |-> s.skipped_tests,
     pass_rate |-> s.pass_rate, compliance_score |-> s.compliance_score,
     conformance_level |-> s.conformance_level,
     protocol_statistics |-> s.protocol_statistics,
     critical_failures |-> s.critical_failures,
     recommendations_summary |-> s.recommendations_summary]

\* C5: every reordering of the ledger has the same counts, pass rate, score,
\* level, per-protocol statistics, number of critical failures, failure
\* bucket counts and list of recommendations as the ledger.
C5_PermutationInvariance ==
    Summarized =>
        \A pi \in Permutations(1..Len(test_results)) :
            LET reordered == Reordered(test_results, pi)
            IN  /\ Scores(summary) \in
                      {Scores(s) : s \in _generate_summary(reordered)}
                /\ failure_categories(reordered)
                      = failure_categories(test_results)

\* The summary of a ledger that crosses two thresholds, the failure of the
\* later bucket recorded first.
C5_Witness ==
    /\ Summarized
    /\ Len(test_results) = 3
    /\ test_results[1].test_name = LargeFilePerformance
    /\ test_results[2].test_name = AuthenticationRequirements
    /\ test_results[3].test_name = LargeFilePerformance
    /\ Len(summary.recommendations_summary) = 2

\* C6: the list of recommendations is never empty; it is the default advisory
\* alone exactly when no bucket exceeds its threshold, as for the empty ledger
\* and for every ledger without a FAIL; the default advisory never comes with
\* another one.
C6_RecommendationsNeverEmpty ==
    Summarized =>
        LET recs == summary.recommendations_summary
            counts == failure_categories(test_results)
        IN  /\ Len(recs) >= 1
            /\ recs = <<DefaultAdvisory>> <=>
                  /\ counts.basic_operations <= 2
                  /\ counts.authentication <= 0
                  /\ counts.performance <= 1
                  /\ counts.error_handling <= 2
                  /\ counts.compliance <= 3
            /\ summary.failed_tests = 0 => recs = <<DefaultAdvisory>>
            /\ DefaultAdvisory \in Range(recs) => Len(recs) = 1

\* The summary of a ledger of PASS outcomes only.
C6_Witness ==
    /\ Summarized
    /\ summary.total_tests > 0
    /\ summary.passed_tests = summary.total_tests
    /\ summary.recommendations_summary = <<DefaultAdvisory>>

\* The bucket of a name by the rule of the specification: the first of
\* basic|query|retrieve|store, auth, performance|time, error|invalid that
\* the lowercase name contains, else compliance.
BucketByRule(test_name) ==
    LET n == lower(test_name)
        basic == \E kw \in {kw_basic, kw_query, kw_retrieve, kw_store} :
                    Contains(kw, n)
        auth == Contains(kw_auth, n)
        perf == \E kw \in {kw_performance, kw_time} : Contains(kw, n)
        err == \E kw \in {kw_error, kw_invalid} : Contains(kw, n)
    IN  CASE basic -> "basic_operations"
          [] ~basic /\ auth -> "authentication"
          [] ~basic /\ ~auth /\ perf -> "performance"
          [] ~basic /\ ~auth /\ ~perf /\ err -> "error_handling"
          [] ~basic /\ ~auth /\ ~perf /\ ~err -> "compliance"

BucketByRuleOf == [n \in TestNames |-> BucketByRule(n)]

\* C7: every FAIL outcome is counted in the one bucket the priority rule
\* gives its name, PASS and SKIP outcomes in none, so the bucket counts sum to
\* the number of failed tests; "Store with Authentication" counts as a basic
\* operation only.
C7_FailureBuckets ==
    Summarized =>
        LET counts == failure_categories(test_results)
            Failed(c) ==
                {i \in DOMAIN test_results :
                    /\ test_results[i].status = "FAIL"
                    /\ BucketByRuleOf[test_results[i].test_name] = c}
        IN  /\ DOMAIN counts = Range(Categories)
            /\ \A c \in Range(Categories) : counts[c] = Cardinality(Failed(c))
            /\ counts.basic_operations + counts.authentication
                 + counts.performance + counts.error_handling
                 + counts.compliance = summary.failed_tests
            /\ (\A i \in DOMAIN test_results :
                    test_results[i].test_name = StoreWithAuthentication)
                 => /\ counts.basic_operations = summary.failed_tests
                    /\ counts.authentication = 0

\* The summary of a ledger with a failed "Store with Authentication", a PASS
\* and a SKIP.
C7_Witness ==
    /\ Summarized
    /\ Len(test_results) = 3
    /\ test_results[1] = TestResult(StoreWithAuthentication, "STOW", "FAIL", 250)
    /\ test_results[2].status = "PASS"
    /\ test_results[3].status = "SKIP"

\* C8: the advisory of a bucket is in the list exactly when the bucket's
\* count exceeds its threshold (2, 0, 1, 2, 3), once and in the order of the
\* buckets, so the list has at most five entries and no duplicate; scenario C
\* gives the basic-operations advisory alone, and its first two failures do
\* not give it.
C8_AdvisoriesByThreshold ==
    Summarized =>
        LET recs == summary.recommendations_summary
            counts == failure_categories(test_results)
            limit == [basic_operations |-> 2, authentication |-> 0,
                      performance |-> 1, error_handling |-> 2, compliance |-> 3]
            Place(r) == CHOOSE k \in 1..5 : Advisory[Categories[k]] = r
        IN  /\ \A c \in Range(Categories) :
                  Advisory[c] \in Range(recs) <=> counts[c] > limit[c]
            /\ Range(recs) \subseteq
                  {Advisory[c] : c \in Range(Categories)} \cup {DefaultAdvisory}
            /\ \A i, j \in DOMAIN recs :
                  (i < j /\ recs[1] # DefaultAdvisory)
                      => Place(recs[i]) < Place(recs[j])
            /\ Len(recs) <= 5
            /\ test_results = ScenarioC
                  => recs = <<Advisory.basic_operations>>
            /\ test_results = SubSeq(ScenarioC, 1, 2)
                  => Advisory.basic_operations \notin Range(recs)

\* The summary of scenario C.
C8_Witness ==
    /\ Summarized
    /\ test_results = ScenarioC
    /\ summary.failed_tests = 3

\* The names with a critical keyword, and those without.
CriticalNames ==
    {BasicPatientQuery, BasicSeriesQuery, BasicInstanceQuery, BasicStudyQuery,
     StoreWithAuthentication, AuthenticationRequirements,
     ErrorResponseHandling, ContentTypeValidation, StudyMetadataRetrieval}

\* C9: critical_failures is the number of FAIL outcomes whose name contains,
\* in any letter case, one of basic, metadata, content-type, authentication,
\* error; it never exceeds the number of failed tests.
C9_CriticalFailures ==
    Summarized =>
        /\ summary.critical_failures =
              Cardinality({i \in DOMAIN test_results :
                              /\ test_results[i].status = "FAIL"
                              /\ test_results[i].test_name \in CriticalNames})
        /\ summary.critical_failures <= summary.failed_tests

\* The summary of a ledger with a passed critical name, a failed critical
\* name and a failed name that is not critical.
C9_Witness ==
    /\ Summarized
    /\ Len(test_results) = 3
    /\ test_results[1] = TestResult(BasicPatientQuery, "QIDO", "PASS", 120)
    /\ test_results[2].status = "FAIL"
    /\ test_results[2].test_name = StudyMetadataRetrieval
    /\ test_results[3].status = "FAIL"
    /\ test_results[3].test_name = InvalidStudyUID
    /\ summary.critical_failures = 1

\* C10: the statistics of a protocol count that protocol's outcomes, with
\* total = passed + failed + skipped and pass_rate = passed/total*100, 0 for
\* no outcome; over the three protocols they sum to the overall counts.
C10_ProtocolStatistics ==
    Summarized =>
        LET stats == summary.protocol_statistics
            Of(protocol, status) ==
                Cardinality({i \in DOMAIN test_results :
                                /\ test_results[i].protocol = protocol
                                /\ test_results[i].status = status})
        IN  /\ DOMAIN stats = {"QIDO", "WADO", "STOW"}
            /\ \A p \in DOMAIN stats :
                  /\ stats[p].passed = Of(p, "PASS")
                  /\ stats[p].failed = Of(p, "FAIL")
                  /\ stats[p].skipped = Of(p, "SKIP")
                  /\ stats[p].total
                        = stats[p].passed + stats[p].failed + stats[p].skipped
                  /\ stats[p].total > 0 =>
                        stats[p].pass_rate.num * stats[p].total
                            = stats[p].passed * 100 * stats[p].pass_rate.den
                  /\ stats[p].total = 0 => stats[p].pass_rate.num = 0
                  /\ stats[p].pass_rate.den > 0
            /\ stats.QIDO.total + stats.WADO.total + stats.STOW.total
                  = summary.total_tests
            /\ stats.QIDO.passed + stats.WADO.passed + stats.STOW.passed
                  = summary.passed_tests
            /\ stats.QIDO.failed + stats.WADO.failed + stats.STOW.failed
                  = summary.failed_tests
            /\ stats.QIDO.skipped + stats.WADO.skipped + stats.STOW.skipped
                  = summary.skipped_tests

\* The summary of a ledger with outcomes of two protocols, the third empty.
C10_Witness ==
    /\ Summarized
    /\ summary.protocol_statistics.QIDO.passed = 1
    /\ summary.protocol_statistics.QIDO.failed = 1
    /\ summary.protocol_statistics.STOW.skipped = 1
    /\ summary.protocol_statistics.WADO.total = 0

\* ---- claims on the vendor identification
Returned == vendor_ret # NoReturn /\ vendor_ret.raised = ""
\* C11: identify_vendor always returns a VendorProfile and never raises,
\* whatever the base URL string, the credentials and the remote side's doing
\* on each probe: every network or parsing error is absorbed in the probe
\* that caused it.
C11_AlwaysReturnsProfile ==
    vendor_ret # NoReturn =>
        /\ vendor_ret.raised = ""
        /\ vendor_ret.profile # NoProfile

\* The i-th request of the call met a confident match: a direct candidate
\* whose parsed body has the marker, or a protocol probe with a vendor token.
ConfidentMatch(i) ==
    LET probe == vendor_ret.probes[i]
    IN  IF i <= Len(candidates(vendor_call.base_url))
        THEN HasOrthancMarker(_try_parse_json(_safe_get(probe.reply)))
        ELSE _detect_from_qido(vendor_call.base_url, probe.auth,
                               probe.reply).profile # NoProfile

NoConfidentMatch ==
    /\ Returned
    /\ \A i \in 1..Len(vendor_ret.probes) : ~ConfidentMatch(i)

\* What the protocol probe of the call captured.
Captured ==
    _detect_from_qido(vendor_call.base_url,
                      vendor_ret.probes[Len(vendor_ret.probes)].auth,
                      vendor_ret.probes[Len(vendor_ret.probes)].reply)

ChainOrder ==
    candidates(vendor_call.base_url) \o <<qido_url(vendor_call.base_url)>>

\* C13: the probe chain is sequential and short-circuiting.  One call issues
\* its requests in the order direct candidate 1, direct candidate 2, protocol
\* probe; a request is issued only after every earlier probe yielded no
\* confident match; a direct candidate that is accepted ends the call with
\* its profile, so that at most three requests are made and the protocol
\* probe never follows a direct match.
C13_SequentialShortCircuit ==
    vendor_ret # NoReturn =>
        LET probes == vendor_ret.probes
        IN  /\ Len(probes) <= 3
            /\ \A i \in 1..Len(probes) : probes[i].url = ChainOrder[i]
            /\ \A i \in 1..Len(probes) : \A j \in 1..(i - 1) :
                   ~ConfidentMatch(j)
            /\ \A i \in 1..Len(probes) :
                   (i <= 2 /\ ConfidentMatch(i))
                   => /\ Len(probes) = i
                      /\ vendor_ret.profile.vendor = Orthanc
                      /\ vendor_ret.profile.detection_method
                             = <<"o","r","t","h","a","n","c","_","s","y","s",
                                 "t","e","m","_","a","p","i",":">> \o probes[i].url

\* The first direct candidate failed, the second, at another URL, was
\* accepted, and the call returned after two requests.
C13_Witness ==
    /\ Returned
    /\ Len(vendor_ret.probes) = 2
    /\ vendor_ret.probes[1].url # vendor_ret.probes[2].url
    /\ vendor_ret.probes[1].reply.kind = "ConnectionError"
    /\ ConfidentMatch(2)
    /\ vendor_ret.profile.vendor = Orthanc
\* The protocol probe of the call was issued.
ProtocolProbeIssued ==
    /\ Returned
    /\ Len(vendor_ret.probes) = Len(ChainOrder)

\* The server-identification header of a response: Server, else X-Powered-By.
ServerIdentification(resp) ==
    LET server == headers_get(resp.headers, <<"S","e","r","v","e","r">>, <<>>)
    IN  IF Len(server) > 0 THEN server
        ELSE headers_get(resp.headers, <<"X","-","P","o","w","e","r","e","d",
                                         "-","B","y">>, <<>>)

\* No vendor token is in the header or in the JSON body of a response.
NoVendorToken(resp) ==
    /\ ~Contains(Orthanc, ServerIdentification(resp))
    /\ ~Contains(dcm4chee, lower(ServerIdentification(resp)))
    /\ resp.body.t = "dict" => ~Contains(Orthanc, dumps(resp.body))

\* C14: whenever the protocol probe receives an HTTP response, whatever its
\* status code, and no vendor token matches, the fallback profile carries the
\* response's server-identification header in server_header and, in
\* qido_signature, the string status={code};server={header};len={length of
\* the body preview} built from that response.
C14_SignatureOfAnyResponse ==
    (/\ ProtocolProbeIssued
     /\ vendor_ret.probes[Len(ChainOrder)].reply.kind = "response"
     /\ NoVendorToken(vendor_ret.probes[Len(ChainOrder)].reply))
    => LET resp == vendor_ret.probes[Len(ChainOrder)].reply
           header == ServerIdentification(resp)
           length == IF resp.body.t = "invalid" THEN 0
                     ELSE IF Len(dumps(resp.body)) < PreviewMax
                     THEN Len(dumps(resp.body))
                     ELSE PreviewMax
       IN  /\ vendor_ret.profile.vendor = Unknown
           /\ vendor_ret.profile.server_header = header
           /\ vendor_ret.profile.qido_signature
                  = <<"s","t","a","t","u","s","=">> \o str_int(resp.status_code)
                    \o <<";","s","e","r","v","e","r","=">> \o header
                    \o <<";","l","e","n","=">> \o str_int(length)

\* The header names that must not be kept, in lower case.
SensitiveNames ==
    {<<"a","u","t","h","o","r","i","z","a","t","i","o","n">>, <<"p","r","o","x","y","-","a","u","t",
                                                                "h","o","r","i","z","a","t","i","o",
                                                                "n">>, <<"c","o","o","k","i","e">>,
     <<"s","e","t","-","c","o","o","k","i","e">>}

\* The probe telemetry of the returned profile, if it has any.
HasTelemetry ==
    /\ Returned
    /\ "qido_probe" \in DOMAIN vendor_ret.profile.additional_hints
    /\ DOMAIN vendor_ret.profile.additional_hints.qido_probe # {}

Telemetry == vendor_ret.profile.additional_hints.qido_probe

\* No sensitive header name, in any letter case, is a key of the returned
\* profile, of its hints or of the request and response headers of its
\* telemetry.
C15_NoSensitiveKey ==
    Returned =>
        /\ \A k \in DOMAIN vendor_ret.profile
                    \cup DOMAIN vendor_ret.profile.additional_hints :
               k \notin {"authorization", "proxy-authorization", "cookie",
                         "set-cookie"}
        /\ HasTelemetry =>
               \A headers \in {Telemetry.request.headers,
                               Telemetry.response.headers} :
                   \A i \in 1..Len(headers) :
                       lower(headers[i][1]) \notin SensitiveNames

\* Every other header of a response to the protocol probe is in the
\* telemetry of the returned profile.
C15_OtherHeadersKept ==
    (/\ ProtocolProbeIssued
     /\ vendor_ret.probes[Len(ChainOrder)].reply.kind = "response")
    => LET sent == vendor_ret.probes[Len(ChainOrder)].reply.headers
       IN  /\ HasTelemetry
           /\ \A i \in 1..Len(sent) :
                  lower(sent[i][1]) \notin SensitiveNames
                  => \E j \in 1..Len(Telemetry.response.headers) :
                         Telemetry.response.headers[j] = sent[i]

\* C15: header redaction.  For any probe run and any response headers, no
\* header named authorization, proxy-authorization, cookie or set-cookie in
\* any letter case is a key anywhere in the returned profile or its nested
\* telemetry, on the direct-match, heuristic-match and fallback paths alike,
\* and every other response header of the protocol probe is kept.
C15_HeaderRedaction == C15_NoSensitiveKey /\ C15_OtherHeadersKept

\* The texts of a sequence of <<name, value>> headers.
HeaderTexts(headers) ==
    UNION {{headers[i][1], headers[i][2]} : i \in 1..Len(headers)}

\* Every text held by the returned profile: its fields, its hints and the
\* URL, headers and body preview of its telemetry.
ProfileTexts ==
    LET profile == vendor_ret.profile
        hints == profile.additional_hints
    IN  {profile.vendor, profile.product, profile.version, profile.base_url,
         profile.detection_method, profile.server_header,
         profile.qido_signature}
        \cup (IF "note" \in DOMAIN hints
              THEN {hints.note, hints.server_header, hints.qido_signature}
              ELSE {})
        \cup (IF "api" \in DOMAIN hints
              THEN {hints.api, dumps(hints.plugins)}
              ELSE {})
        \cup (IF HasTelemetry
              THEN {Telemetry.probe_type, Telemetry.request.url,
                    Telemetry.request.method,
                    Telemetry.response.body_preview}
                   \cup HeaderTexts(Telemetry.request.headers)
                   \cup HeaderTexts(Telemetry.response.headers)
              ELSE {})

\* C16: no credential supplied to identify_vendor is stored or returned.  For
\* any base_url, username, password and server behaviour, neither the
\* username nor the password appears verbatim in any field of the returned
\* profile, the request URL, headers and body preview of its telemetry
\* included.
C16_NoCredentialInProfile ==
    (Returned /\ vendor_call.username # NoCredential)
    => \A text \in ProfileTexts :
           /\ ~Contains(vendor_call.username, text)
           /\ ~Contains(vendor_call.password, text)

\* ---- claims on VendorProfile.to_dict
\* The names of credential-shaped entries.
CredentialShaped == {"credentials", "username", "password", "authorization"}

\* C17: to_dict omits any credential-shaped field even if one was populated
\* upstream.  For any profile, one whose additional_hints were given entries
\* named credentials, username, password or authorization included, the dict
\* it returns has no such entry at any nesting level, and every other field
\* and hint is returned unchanged.
C17_ToDictOmitsCredentials ==
    to_dict_ret # NoDict =>
        /\ DOMAIN to_dict_ret \cap CredentialShaped = {}
        /\ DOMAIN to_dict_ret.additional_hints \cap CredentialShaped = {}
        /\ \A k \in DOMAIN to_dict_self
                    \ (CredentialShaped \cup {"additional_hints"}) :
               k \in DOMAIN to_dict_ret /\ to_dict_ret[k] = to_dict_self[k]
        /\ \A h \in DOMAIN to_dict_self.additional_hints \ CredentialShaped :
               /\ h \in DOMAIN to_dict_ret.additional_hints
               /\ to_dict_ret.additional_hints[h]
                      = to_dict_self.additional_hints[h]


\* C18: in a session run the vendor probe chain is executed once, after the
\* executors and before any report, and its profile is in the summary handed
\* to the renderers: the calls run_test_suite makes with pacs_url, username
\* and password complete without raising, identify_vendor has returned, and
\* the summary carries pacs_metadata.
C18_VendorChainInSession ==
    [][run_test_suite_reports =>
           /\ raised' = ""
           /\ vendor_ret' # NoReturn
           /\ summary' # NoSummary
           /\ "pacs_metadata" \in DOMAIN summary']_vars


\* C19: in the JSON report each list of test_results_by_protocol has every
\* FAIL and SKIP outcome before every PASS outcome, and the names of each of
\* the two groups ascend.
C19_FailuresFirst ==
    json_report # NoReport =>
        \A protocol \in DOMAIN json_report.test_results_by_protocol :
            LET list == json_report.test_results_by_protocol[protocol]
            IN  \A i, j \in DOMAIN list :
                    i < j =>
                        /\ ~(list[i].status = "PASS" /\ list[j].status # "PASS")
                        /\ (list[i].status = "PASS") = (list[j].status = "PASS")
                               => ~str_lt(list[j].test_name, list[i].test_name)


\* The key (protocol, status != PASS, test_name) of an outcome, compared as
\* a tuple: the protocol names in alphabetical order, False before True.
ProtocolsAscending == <<"QIDO", "STOW", "WADO">>

KeyLess(x, y) ==
    LET rank(r) == CHOOSE k \in DOMAIN ProtocolsAscending :
                       ProtocolsAscending[k] = r.protocol
        flag(r) == IF r.status # "PASS" THEN 1 ELSE 0
    IN  \/ rank(x) < rank(y)
        \/ /\ rank(x) = rank(y)
           /\ \/ flag(x) < flag(y)
              \/ flag(x) = flag(y) /\ str_lt(x.test_name, y.test_name)

\* C20: all_test_results of the JSON report holds every outcome of the
\* ledger exactly once, ascending by the key (protocol, status != PASS,
\* test_name), outcomes of equal keys in their ledger order; and generating
\* the report leaves the ledger as it was.
C20_AllResultsStableSorted ==
    [][GenerateJsonReport =>
           /\ test_results' = test_results
           /\ LET all == json_report'.all_test_results
                  n == Len(test_results)
              IN  /\ Len(all) = n
                  /\ \E pi \in [1..n -> 1..n] :
                         /\ \A i, j \in 1..n : i # j => pi[i] # pi[j]
                         /\ \A i \in 1..n : all[i] = test_results[pi[i]]
                         /\ \A i, j \in 1..n :
                                i < j =>
                                    /\ ~KeyLess(all[j], all[i])
                                    /\ ~KeyLess(all[i], all[j])
                                           => pi[i] < pi[j]]_vars

\* A report of a ledger that is out of order and holds two outcomes of one
\* key: the WADO outcome recorded first is listed last, and the SKIP and the
\* FAIL outcome of one STOW test keep their ledger order.
C20_Witness ==
    /\ json_report # NoReport
    /\ Len(test_results) = 3
    /\ test_results[1].protocol = "WADO"
    /\ test_results[2] = TestResult(StoreWithAuthentication, "STOW", "SKIP", 0)
    /\ test_results[3] = TestResult(StoreWithAuthentication, "STOW", "FAIL", 250)
    /\ json_report.all_test_results
           = <<test_results[2], test_results[3], test_results[1]>>


\* ---- claims on the strategies of the vendor identification
\* The reply is a response whose body parses to a JSON object with a marker
\* field, read off the reply itself.
MarkerFields(reply) ==
    IF reply.kind = "response" /\ reply.body.t = "dict"
    THEN {i \in 1..Len(reply.body.items) :
             reply.body.items[i][1] \in {<<"V","e","r","s","i","o","n">>, <<"O","r","t","h","a","n","c","V","e",
                                                                            "r","s","i","o","n">>}}
    ELSE {}

\* The call returned from the direct probe, before the protocol probe.
DirectMatch ==
    /\ Returned
    /\ Len(vendor_ret.probes) <= Len(candidates(vendor_call.base_url))

\* C21: the direct probe returns a confident match only if a candidate's
\* response parses to a JSON object with the marker field Version or
\* OrthancVersion; a failed request, a body that is not JSON, a JSON array
\* and an object without a marker are no match for their candidate, and the
\* chain goes on after them.  The accepted profile has vendor and product
\* Orthanc, as version the text of a marker field of the accepted body, and
\* a detection_method that names the accepted candidate's URL.
C21_DirectProbeAcceptance ==
    Returned =>
        LET probes == vendor_ret.probes
            last == probes[Len(probes)]
            profile == vendor_ret.profile
        IN  /\ \A i \in 1..Len(probes) :
                   (i <= Len(candidates(vendor_call.base_url))
                    /\ MarkerFields(probes[i].reply) = {})
                   => Len(probes) > i
            /\ DirectMatch =>
                   /\ MarkerFields(last.reply) # {}
                   /\ profile.vendor = Orthanc
                   /\ profile.product = Orthanc
                   /\ \E i \in MarkerFields(last.reply) :
                          /\ last.reply.body.items[i][2].t = "str"
                          /\ profile.version = last.reply.body.items[i][2].text
                   /\ profile.detection_method
                          = <<"o","r","t","h","a","n","c","_","s","y","s","t",
                              "e","m","_","a","p","i",":">> \o last.url
                   /\ last.url \in Range(candidates(vendor_call.base_url))

\* A call whose first candidate answered with a JSON object without marker
\* and whose second answered with an empty Version beside OrthancVersion 1.0:
\* the second is accepted with version 1.0.
C21_Witness ==
    /\ DirectMatch
    /\ Len(vendor_ret.probes) = 2
    /\ vendor_ret.probes[1].reply.kind = "response"
    /\ vendor_ret.probes[1].reply.body.t = "dict"
    /\ MarkerFields(vendor_ret.probes[1].reply) = {}
    /\ Cardinality(MarkerFields(vendor_ret.probes[2].reply)) = 2
    /\ vendor_ret.profile.version = <<"1",".","0">>


\* C22: the JSON body preview kept in the probe telemetry is never longer
\* than 2048 characters: in every profile identify_vendor returns, the
\* body_preview under additional_hints.qido_probe.response, when there, has
\* at most 2048 characters, the len= component that ends qido_signature is
\* the length of that preview, and the preview is empty when the body of the
\* response is not JSON.
C22_PreviewBounded ==
    HasTelemetry =>
        LET preview == Telemetry.response.body_preview
            signed == vendor_ret.profile.qido_signature
            reply == vendor_ret.probes[Len(vendor_ret.probes)].reply
            shown == <<";","l","e","n","=">> \o str_int(Len(preview))
        IN  /\ Len(preview) <= 2048
            /\ Len(signed) >= Len(shown)
            /\ SubSeq(signed, Len(signed) - Len(shown) + 1, Len(signed))
                   = shown
            /\ reply.body.t = "invalid" => preview = <<>>

\* The protocol probe was answered with a JSON text of 2049 characters and
\* the profile keeps a preview of 2048.
C22_Witness ==
    /\ HasTelemetry
    /\ Len(dumps(vendor_ret.probes[Len(vendor_ret.probes)].reply.body)) = 2049
    /\ Len(Telemetry.response.body_preview) = 2048


\* ---- claims on the figures of the summary
\* C23: every percentage of the summary is rounded to two decimals:
\* compliance_score and the overall pass_rate are whole hundredths between 0
\* and 100, and so is the pass_rate of each protocol, that is, a hundred times
\* its value is a whole number.
C23_PercentagesRounded ==
    summary # NoSummary =>
        /\ summary.compliance_score \in 0..10000
        /\ summary.pass_rate \in 0..10000
        /\ \A protocol \in DOMAIN summary.protocol_statistics :
               LET rate == summary.protocol_statistics[protocol].pass_rate
               IN  (rate.num * 100) % rate.den = 0


\* The threshold table on a score in hundredths.
LevelOfHundredths(h) ==
    IF h >= 9000 THEN "EXCELLENT"
    ELSE IF h >= 7500 THEN "GOOD"
    ELSE IF h >= 6000 THEN "ACCEPTABLE"
    ELSE IF h >= 4000 THEN "POOR"
    ELSE "NON_COMPLIANT"

\* C26: the conformance_level of a summary agrees with the compliance_score
\* of the same summary: the threshold table applied to the two-decimal score
\* yields the level, for every ledger.
C26_LevelAgreesWithReportedScore ==
    Summarized =>
        summary.conformance_level = LevelOfHundredths(summary.compliance_score)

\* C26 as amended: the level is the threshold table applied to the unrounded
\* score passed/(total - skipped)*100, 0 when nothing was scored.  It is the
\* table applied to the reported score unless the reported score is a
\* threshold T that the unrounded score stays below (it lies in
\* [T - 0.005, T) and was rounded up): there the level is the one under T.
C26_LevelOfUnroundedScore ==
    Summarized =>
        LET scored == summary.total_tests - summary.skipped_tests
            AtLeast(t) == scored > 0 /\ summary.passed_tests * 100 >= t * scored
            exact == IF AtLeast(90) THEN "EXCELLENT"
                     ELSE IF AtLeast(75) THEN "GOOD"
                     ELSE IF AtLeast(60) THEN "ACCEPTABLE"
                     ELSE IF AtLeast(40) THEN "POOR"
                     ELSE "NON_COMPLIANT"
            h == summary.compliance_score
            RoundedUpTo(t) ==
                /\ h = t * 100
                /\ ~AtLeast(t)
                /\ summary.passed_tests * 100 * 1000 >= (t * 1000 - 5) * scored
        IN  /\ summary.conformance_level = exact
            /\ (\A t \in {90, 75, 60, 40} : ~RoundedUpTo(t))
                   <=> summary.conformance_level = LevelOfHundredths(h)
            /\ (h \in {9000, 7500, 6000, 4000}
                /\ summary.conformance_level # LevelOfHundredths(h))
                   => /\ summary.conformance_level = LevelOfHundredths(h - 1)
                      /\ \E t \in {90, 75, 60, 40} : RoundedUpTo(t)

\* The summary of 1808 PASS and 201 FAIL outcomes: the score 89.99502 is
\* reported as 90.00 and the level is GOOD.
C26_Witness ==
    /\ Summarized
    /\ summary.passed_tests = 1808
    /\ summary.failed_tests = 201
    /\ summary.compliance_score = 9000
    /\ summary.conformance_level = "GOOD"


\* C30: the heuristics of the protocol probe assign the vendor by tokens in a
\* fixed precedence.  The profile is Orthanc by
\* qido_header_or_body_contains_Orthanc exactly when the server header of the
\* probe's response contains Orthanc in that letter case or its JSON body
\* contains Orthanc; otherwise it is dcm4chee by
\* server_header_contains_dcm4chee exactly when the server header contains
\* dcm4chee in any letter case; with both tokens Orthanc wins.  A heuristic
\* profile has an empty version, the server header, the signature, and the
\* probe metadata under additional_hints.qido_probe.
C30_HeuristicPrecedence ==
    ProtocolProbeIssued =>
        LET resp == vendor_ret.probes[Len(ChainOrder)].reply
            header == ServerIdentification(resp)
            profile == vendor_ret.profile
            orthanc_token ==
                \/ Contains(Orthanc, header)
                \/ /\ resp.body.t \notin {"invalid", "None"}
                   /\ Contains(Orthanc, dumps(resp.body))
            dcm4chee_token == Contains(dcm4chee, lower(header))
            by_orthanc ==
                /\ profile.vendor = Orthanc
                /\ profile.detection_method
                       = <<"q","i","d","o","_","h","e","a","d","e","r","_",
                           "o","r","_","b","o","d","y","_","c","o","n","t",
                           "a","i","n","s","_","O","r","t","h","a","n","c">>
            by_dcm4chee ==
                /\ profile.vendor = dcm4chee
                /\ profile.detection_method
                       = <<"s","e","r","v","e","r","_","h","e","a","d","e",
                           "r","_","c","o","n","t","a","i","n","s","_","d",
                           "c","m","4","c","h","e","e">>
        IN  /\ by_orthanc <=> orthanc_token
            /\ by_dcm4chee <=> (~orthanc_token /\ dcm4chee_token)
            /\ (by_orthanc \/ by_dcm4chee)
                   => /\ profile.version = <<>>
                      /\ profile.server_header = header
                      /\ profile.qido_signature = Captured.qido_signature
                      /\ Len(profile.qido_signature) > 0
                      /\ HasTelemetry
                      /\ Telemetry = Captured.raw_probe
                      /\ Telemetry.response.status_code = resp.status_code

\* The ledger with every field the engine does not read taken away.
ReadFields(ledger) ==
    [i \in DOMAIN ledger |->
        TestResult(ledger[i].test_name, ledger[i].protocol, ledger[i].status,
                   ledger[i].response_time)]

InLedgerOrder(ledger, idx) ==
    [k \in 1..Cardinality(idx) |->
        ledger[CHOOSE i \in idx : Cardinality({j \in idx : j < i}) = k - 1]]

\* C24: the ledger is append-only and order-preserving.  In every step the
\* entries recorded before stay where and what they were; a call of
\* _record_test_result adds exactly one entry, at the end, that carries the
\* given fields, the clock's reading at the call as timestamp, and None for
\* each of recommendation, mapping_id, requirement and requirement_level
\* that was not supplied; get_results_by_status, get_results_by_protocol and
\* get_summary leave the ledger as it is, and the two filters return exactly
\* the matching entries, in ledger order.
C24_LedgerAppendOnly ==
    [][LET n == Len(test_results)
           call == last_call'
           last == test_results'[n + 1]
       IN  /\ Len(test_results') >= n
           /\ SubSeq(test_results', 1, n) = test_results
           /\ call.op = "_record_test_result" =>
                  /\ Len(test_results') = n + 1
                  /\ \A k \in DOMAIN call.arg : last[k] = call.arg[k]
                  /\ last.timestamp = now
                  /\ \A k \in {"recommendation", "mapping_id", "requirement",
                               "requirement_level"} \ DOMAIN call.arg :
                         last[k] = None
                  /\ DOMAIN last
                         = {"test_name", "protocol", "status", "message",
                            "response_time", "request_details",
                            "response_details", "timestamp", "recommendation",
                            "mapping_id", "requirement", "requirement_level"}
           /\ call.op \in {"get_results_by_status", "get_results_by_protocol",
                           "get_summary"} =>
                  test_results' = test_results
           /\ call.op = "get_results_by_status" =>
                  call.ret = InLedgerOrder(test_results,
                                 {i \in 1..n :
                                     test_results[i].status = call.arg.status})
           /\ call.op = "get_results_by_protocol" =>
                  call.ret = InLedgerOrder(test_results,
                                 {i \in 1..n :
                                     test_results[i].protocol
                                         = call.arg.protocol})]_vars

\* An outcome was recorded without the standards fields after a tagged one,
\* at a later reading of the clock, and a filter then returned two of three
\* entries.
C24_Witness ==
    /\ Len(test_results) = 3
    /\ test_results[1].requirement_level = <<"S","H","A","L","L">>
    /\ test_results[2].requirement_level = None
    /\ test_results[2].timestamp = 1
    /\ test_results[1].status = "FAIL"
    /\ test_results[2].status = "PASS"
    /\ test_results[3].status = "FAIL"
    /\ last_call # NoCall
    /\ last_call.op = "get_results_by_status"
    /\ last_call.ret = <<test_results[1], test_results[3]>>

\* C25: get_summary agrees with the scoring engine: the total_tests, passed,
\* failed, skipped and pass_rate it returns for a ledger equal the
\* total_tests, passed_tests, failed_tests, skipped_tests and pass_rate of
\* the summary _generate_summary returns for that ledger.
C25_SummaryAgreesWithEngine ==
    (last_call # NoCall /\ last_call.op = "get_summary") =>
        \A s \in _generate_summary(test_results) :
            /\ last_call.ret.total_tests = s.total_tests
            /\ last_call.ret.passed = s.passed_tests
            /\ last_call.ret.failed = s.failed_tests
            /\ last_call.ret.skipped = s.skipped_tests
            /\ last_call.ret.pass_rate.num * 100
                   = s.pass_rate * last_call.ret.pass_rate.den

Terminated(ts) == {w \in DOMAIN ts : ts[w].pc = "done"}

====
